---- MODULE Spec2Model ----
(***************************************************************************)
(* A model of the AI medical chatbot's persistence and security helpers:   *)
(* the Fernet wrapper of src/utils/encryption.py, the transaction scope of *)
(* src/database/database.py, the managers of src/database/user_manager.py  *)
(* over the schema of src/database/models.py, and the Streamlit handlers   *)
(* of frontend.py that call them.                                          *)
(*                                                                         *)
(* A Python str is a sequence of symbols (one-symbol strings); bytes are   *)
(* sequences of byte symbols.  What a call did is a record: [raised, val]  *)
(* when it returned val, [raised, exc] when exception exc left it.         *)
(***************************************************************************)
EXTENDS Integers, Sequences, FiniteSets, TLC

VARIABLES
    encryption_key,  \* EncryptionManager.encryption_key of the global instance
    enc_in,          \* argument of the last encrypt_data call
    enc_out,         \* what that call returned or raised
    dec_in,          \* argument of the last decrypt_data call
    dec_out,         \* what that call returned or raised
    pw_in,           \* argument of the last hash_password call
    pw_hash,         \* what that call returned or raised
    pw_try,          \* password of the last verify_password call against pw_hash
    pw_ok,           \* what that call returned or raised
    engine,          \* the dialect of DATABASE_URL the engine was created for
    db,              \* the committed rows of each table
    next_id,         \* per table, how many rows were inserted under a uuid4 key
    now,             \* the clock datetime.utcnow() reads
    frame,           \* per request thread, the manager call it is inside
    tx,              \* the last get_session scope: where it began, how its body ended
    last,            \* the last manager call that returned, and its result
    session_state,   \* st.session_state of the one browser session followed
    nav,             \* the widget state of the sidebar's navigation selectbox
    screen,          \* what the last run of the script left on the page
    rerun,           \* the button whose handler called st.rerun(), until that run
    reg_data,        \* argument of the last validate_user_data call
    reg_result,      \* what that call returned
    hf_cache,        \* st.cache_data of get_huggingface_summary: text to value
    hf_call,         \* the last get_huggingface_summary call: POSTs sent, result
    environ,         \* os.environ: the three variables the key is read from
    managers,        \* the EncryptionManager instances created so far
    used             \* which instances made the last encrypt and decrypt calls

cryptoVars == <<encryption_key, enc_in, enc_out, dec_in, dec_out>>

hashVars == <<pw_in, pw_hash, pw_try, pw_ok>>

dbVars == <<engine, db, next_id, now, frame, tx, last>>

uiVars == <<session_state, nav, screen, rerun>>

validateVars == <<reg_data, reg_result>>

summaryVars == <<hf_cache, hf_call>>

keyVars == <<environ, managers, used>>

vars == <<encryption_key, enc_in, enc_out, dec_in, dec_out,
          pw_in, pw_hash, pw_try, pw_ok,
          engine, db, next_id, now, frame, tx, last,
          session_state, nav, screen, rerun, reg_data, reg_result,
          hf_cache, hf_call, environ, managers, used>>

----------------------------------------------------------------------------
(* Bounds                                                                  *)

\* longest plaintext handed to encrypt_data
MaxLen == 2

\* rows the tables may hold: accounts, chat sessions and chat messages ever
\* created, feedback rows submitted
MaxUsers == 3

MaxSessions == 2

MaxMessages == 2

MaxFeedback == 1

\* how far the clock is followed
MaxClock == 2

\* entries of the displayed conversation a Send may leave
MaxShown == 4

----------------------------------------------------------------------------
(* Python values                                                           *)

Return(v) == [raised |-> FALSE, val |-> v]

Raise(e) == [raised |-> TRUE, exc |-> e]

NoCall == [raised |-> FALSE, called |-> FALSE]

\* Code points of the plaintexts: an ASCII letter, a two-byte code point and
\* a lone surrogate (a str can hold one, UTF-8 cannot encode it).  Every
\* other symbol of the model is an ASCII character.
Chars == {"a", "U+00E9", "U+D800"}

Surrogates == {"U+D800"}

RECURSIVE SeqsUpTo(_, _)
SeqsUpTo(S, n) ==
    IF n = 0 THEN {<<>>}
    ELSE LET shorter == SeqsUpTo(S, n - 1)
         IN  shorter \cup {Append(s, c) : s \in shorter, c \in S}

Strs == SeqsUpTo(Chars, MaxLen)

\* UTF-8 of one code point: ASCII is one byte, U+00E9 is two.
CharBytes(c) == IF c = "U+00E9" THEN <<"c3", "a9">> ELSE <<c>>

RECURSIVE Utf8Bytes(_)
Utf8Bytes(s) ==
    IF s = <<>> THEN <<>> ELSE CharBytes(Head(s)) \o Utf8Bytes(Tail(s))

\* str.encode(): a surrogate code point raises UnicodeEncodeError.
StrEncode(s) ==
    IF \E i \in 1..Len(s) : s[i] \in Surrogates
    THEN Raise("UnicodeEncodeError")
    ELSE Return(Utf8Bytes(s))

\* bytes.decode(): a byte sequence that is no UTF-8 raises
\* UnicodeDecodeError.
RECURSIVE BytesDecode(_)
BytesDecode(b) ==
    IF b = <<>> THEN Return(<<>>)
    ELSE IF Head(b) = "c3" /\ Len(b) >= 2 /\ b[2] = "a9" THEN
        LET r == BytesDecode(Tail(Tail(b)))
        IN  IF r.raised THEN r ELSE Return(<<"U+00E9">> \o r.val)
    ELSE IF Head(b) \in {"c3", "a9", "ff"} THEN Raise("UnicodeDecodeError")
    ELSE
        LET r == BytesDecode(Tail(b))
        IN  IF r.raised THEN r ELSE Return(<<Head(b)>> \o r.val)

----------------------------------------------------------------------------
(* cryptography.fernet.Fernet and base64, as encryption.py uses them       *)

Keys == {"k1", "k2"}

\* The timestamp and random IV Fernet.encrypt draws for a token.
IVs == {"iv1", "iv2"}

\* Fernet.encrypt: version byte, IV, the encrypted payload, and the HMAC tag
\* (the last symbol names the key the tag verifies under).
FernetEncrypt(key, iv, data) == <<"0x80", iv>> \o data \o <<key>>

\* Fernet.decrypt: InvalidToken unless the token is well formed and its tag
\* verifies under this key.
FernetDecrypt(key, token) ==
    IF Len(token) < 3 \/ token[1] # "0x80" \/ token[Len(token)] # key
    THEN Raise("InvalidToken")
    ELSE Return(SubSeq(token, 3, Len(token) - 1))

\* The base64 text of a byte and back: the text is ASCII whatever the bytes.
B64Char(byte) ==
    CASE byte = "c3" -> "C3" [] byte = "a9" -> "A9" [] byte = "ff" -> "FF"
      [] OTHER -> byte

B64Byte(char) ==
    CASE char = "C3" -> "c3" [] char = "A9" -> "a9" [] char = "FF" -> "ff"
      [] OTHER -> char

\* base64.urlsafe_b64encode(...).decode(): the text of the token.
B64Encode(data) == <<"b64">> \o [i \in 1..Len(data) |-> B64Char(data[i])]

\* Bytes outside the base64 alphabet, which b64decode discards.
NonAlphabet == {"\n", "c3", "a9", "ff"}

B64Data(b) == SelectSeq(b, LAMBDA c : c \notin NonAlphabet)

\* base64.urlsafe_b64decode: discards non-alphabet characters; text that is
\* no encoding raises binascii.Error (bad padding) or decodes to bytes that
\* are no token.
B64Decode(b) ==
    LET d == B64Data(b)
    IN  IF d # <<>> /\ Head(d) = "b64"
        THEN Return([i \in 1..(Len(d) - 1) |-> B64Byte(d[i + 1])])
        ELSE IF Len(d) % 4 # 0 THEN Raise("binascii.Error")
        ELSE IF d = <<>> THEN Return(<<>>)
        ELSE Return(<<"garbage">>)

\* EncryptionManager.encrypt
Encrypt(key, iv, data) ==
    IF data = <<>> THEN Return(<<>>)
    ELSE LET e == StrEncode(data)
         IN  IF e.raised THEN e  \* logged and re-raised
             ELSE Return(B64Encode(FernetEncrypt(key, iv, e.val)))

\* EncryptionManager.decrypt returning the decrypted bytes without .decode()
DecryptWithoutDecode(key, encrypted_data) ==
    IF encrypted_data = <<>> THEN Return(<<>>)
    ELSE LET e == StrEncode(encrypted_data)
             d == IF e.raised THEN e ELSE B64Decode(e.val)
             t == IF d.raised THEN d ELSE FernetDecrypt(key, d.val)
         IN  IF t.raised THEN Return(<<>>) ELSE t

\* EncryptionManager.decrypt with the handler of encrypt: log and re-raise
DecryptReraising(key, encrypted_data) ==
    IF encrypted_data = <<>> THEN Return(<<>>)
    ELSE LET e == StrEncode(encrypted_data)
             d == IF e.raised THEN e ELSE B64Decode(e.val)
             t == IF d.raised THEN d ELSE FernetDecrypt(key, d.val)
         IN  IF t.raised THEN t ELSE BytesDecode(t.val)

\* EncryptionManager.decrypt
Decrypt(key, encrypted_data) ==
    IF encrypted_data = <<>> THEN Return(<<>>)
    ELSE LET e == StrEncode(encrypted_data)
             d == IF e.raised THEN e ELSE B64Decode(e.val)
             t == IF d.raised THEN d ELSE FernetDecrypt(key, d.val)
             s == IF t.raised THEN t ELSE BytesDecode(t.val)
         IN  IF s.raised THEN Return(<<>>) ELSE s

----------------------------------------------------------------------------
(* Calls of encrypt_data and decrypt_data on the global EncryptionManager  *)

\* Payloads another writer may have put into a token: the encodings of the
\* plaintexts and one byte that is no UTF-8.
Payloads == {Utf8Bytes(s) : s \in {x \in Strs : ~StrEncode(x).raised}} \cup {<<"ff">>}

Tokens == {FernetEncrypt(k, iv, p) : k \in Keys, iv \in IVs, p \in Payloads}

\* A token with a bit flipped: its tag no longer verifies.
Tamper(token) == SubSeq(token, 1, Len(token) - 1) \o <<"bad">>

\* What a caller can hand to decrypt_data: any text, the text of any token
\* (made under any key), of a tampered token, and such a text with a line
\* break inserted.
CipherInputs ==
    Strs
    \cup {B64Encode(t) : t \in Tokens}
    \cup {B64Encode(Tamper(t)) : t \in Tokens}
    \cup {<<"b64", "\n">> \o Tail(B64Encode(t)) : t \in Tokens}

\* The parts of a state the encryption calls set.
CryptoStart ==
    /\ enc_in = <<>>
    /\ enc_out = NoCall
    /\ dec_in = <<>>
    /\ dec_out = NoCall

\* encrypt_data(data)
EncryptData(data, iv) ==
    /\ enc_in' = data
    /\ enc_out' = Encrypt(encryption_key, iv, data)
    /\ UNCHANGED <<encryption_key, dec_in, dec_out>>
    /\ UNCHANGED <<hashVars, dbVars, uiVars, validateVars, summaryVars, keyVars>>

\* decrypt_data(encrypted_data)
DecryptData(encrypted_data) ==
    /\ dec_in' = encrypted_data
    /\ dec_out' = Decrypt(encryption_key, encrypted_data)
    /\ UNCHANGED <<encryption_key, enc_in, enc_out>>
    /\ UNCHANGED <<hashVars, dbVars, uiVars, validateVars, summaryVars, keyVars>>

\* decrypt_data applied to what the last encrypt_data call returned
DecryptStored ==
    /\ enc_out # NoCall
    /\ ~enc_out.raised
    /\ DecryptData(enc_out.val)

----------------------------------------------------------------------------
(* The schema (models.py) and the engine (database.py)                     *)

\* Python's None and SQL's NULL in a text column.
None == <<"None">>

\* What a manager returns: None, a bool, a row as a dictionary, a key.
RetNone == [kind |-> "None"]

RetBool(b) == [kind |-> "bool", bool |-> b]

RetDict(row) == [kind |-> "dict", row |-> row]

RetId(id) == [kind |-> "id", id |-> id]

Engines == {"sqlite", "postgresql"}

\* SQLite checks no foreign key unless PRAGMA foreign_keys=ON is issued on
\* the connection, and create_engine is given nothing that issues it.
EnforcesForeignKeys(e) == e # "sqlite"

EmptyDb ==
    [users |-> {}, medical_profiles |-> {}, chat_sessions |-> {},
     chat_messages |-> {}, user_feedback |-> {}]

\* hashlib.sha256(b).hexdigest(): injective on the byte strings of the model.
Sha256Hex(b) == <<"sha256">> \o b

\* UserManager.hash_password hashing no more than the first character
HashPasswordTruncated(password) ==
    LET e == StrEncode(IF password = <<>> THEN <<>> ELSE <<Head(password)>>)
    IN  IF e.raised THEN e ELSE Return(Sha256Hex(e.val))

\* UserManager.hash_password
hash_password(password) ==
    LET e == StrEncode(password)
    IN  IF e.raised THEN e ELSE Return(Sha256Hex(e.val))

\* UserManager.verify_password
verify_password(password, hashed_password) ==
    LET e == StrEncode(password)
    IN  IF e.raised THEN e ELSE Return(Sha256Hex(e.val) = hashed_password)

\* A call of UserManager.hash_password
HashPassword(password) ==
    /\ pw_in' = password
    /\ pw_hash' = hash_password(password)
    /\ pw_try' = <<>>
    /\ pw_ok' = NoCall
    /\ UNCHANGED <<cryptoVars, dbVars, uiVars, validateVars, summaryVars, keyVars>>

\* A call of UserManager.verify_password against the hash the last
\* hash_password call returned
VerifyPassword(password) ==
    /\ pw_hash # NoCall
    /\ ~pw_hash.raised
    /\ pw_try' = password
    /\ pw_ok' = verify_password(password, pw_hash.val)
    /\ UNCHANGED <<pw_in, pw_hash>>
    /\ UNCHANGED <<cryptoVars, dbVars, uiVars, validateVars, summaryVars, keyVars>>

\* users.username and users.email declared without unique=True
NoUniqueConstraint(users, username, email) == FALSE

\* users.username and users.email are declared unique=True.
UniqueViolation(users, username, email) ==
    \E u \in users : u.username = username \/ u.email = email

\* The rows a foreign key of a new or remaining row must find.
UserIds(d) == {u.id : u \in d.users}

SessionIds(d) == {s.id : s \in d.chat_sessions}

MessageIds(d) == {m.id : m \in d.chat_messages}

\* How the body of a `with get_db_session()` block ended: with an exception
\* or not, and the session's view of the tables at that point.
Raised(exc, work) == [raised |-> TRUE, exc |-> exc, work |-> work]

Done(work) == [raised |-> FALSE, exc |-> "", work |-> work]

\* A get_session scope that ran: the tables when it began and how its body
\* ended.
Scope(before, body) ==
    [before |-> before, raised |-> body.raised, exc |-> body.exc, work |-> body.work]

\* DatabaseManager.get_session that commits whatever the body did
GetSessionWithoutRollback(before, body) == body.work

\* DatabaseManager.get_session: the body's work is committed when the body
\* (and the flush that commit runs) ends without an exception, and rolled
\* back when it raises.
GetSession(before, body) == IF body.raised THEN before ELSE body.work

----------------------------------------------------------------------------
(* UserManager, SessionManager, FeedbackManager (user_manager.py)          *)

Procs == {"t1", "t2"}

Idle == [pc |-> "idle"]

Returned(op, ret) == [op |-> op, ret |-> ret]

\* UserManager.create_user up to its existence query.  A caller that finds
\* the name or the address taken returns None; another goes on to the
\* INSERT.
CreateUserQuery(p, username, email, password, first_name, last_name) ==
    LET args == [username |-> username, email |-> email, password |-> password,
                 first_name |-> first_name, last_name |-> last_name]
        existing_user == \E u \in db.users : u.username = username \/ u.email = email
    IN  /\ frame[p] = Idle
        /\ IF existing_user
           THEN /\ tx' = Scope(db, Done(db))
                /\ last' = Returned("create_user", RetNone)
                /\ UNCHANGED frame
           ELSE /\ frame' = [frame EXCEPT ![p] = [pc |-> "create_user_insert", args |-> args]]
                /\ UNCHANGED <<tx, last>>
        /\ UNCHANGED <<engine, db, next_id, now>>
        /\ UNCHANGED <<cryptoVars, hashVars, uiVars, validateVars, summaryVars, keyVars>>

\* The User row create_user builds: the password hashed, the names
\* encrypted when given.
NewUser(id, a, iv) ==
    LET h == hash_password(a.password)
        f == IF a.first_name # <<>> /\ a.first_name # None
             THEN Encrypt(encryption_key, iv, a.first_name) ELSE Return(None)
        l == IF a.last_name # <<>> /\ a.last_name # None
             THEN Encrypt(encryption_key, iv, a.last_name) ELSE Return(None)
    IN  IF h.raised THEN h
        ELSE IF f.raised THEN f
        ELSE IF l.raised THEN l
        ELSE Return([id |-> id, username |-> a.username, email |-> a.email,
                     password_hash |-> h.val, first_name |-> f.val,
                     last_name |-> l.val, is_active |-> TRUE, last_login |-> 0])

\* The body of create_user after the query: the row is flushed and a
\* MedicalProfile added.
CreateUserBody(d, new_user) ==
    IF new_user.raised THEN Raised(new_user.exc, d)
    ELSE IF UniqueViolation(d.users, new_user.val.username, new_user.val.email)
    THEN Raised("IntegrityError", d)
    ELSE Done([d EXCEPT !.users = @ \cup {new_user.val},
                        !.medical_profiles = @ \cup {[user_id |-> new_user.val.id]}])

CreateUserInsert(p, iv) ==
    /\ frame[p].pc = "create_user_insert"
    /\ LET id == next_id.users + 1
           new_user == NewUser(id, frame[p].args, iv)
           body == CreateUserBody(db, new_user)
       IN  /\ body.raised \/ next_id.users < MaxUsers
           /\ db' = GetSession(db, body)
           /\ tx' = Scope(db, body)
           /\ next_id' = IF body.raised THEN next_id ELSE [next_id EXCEPT !.users = id]
           /\ last' = Returned("create_user",
                               IF body.raised THEN RetNone ELSE RetDict(new_user.val))
    /\ frame' = [frame EXCEPT ![p] = Idle]
    /\ UNCHANGED <<engine, now>>
    /\ UNCHANGED <<cryptoVars, hashVars, uiVars, validateVars, summaryVars, keyVars>>

\* authenticate_user without the verify_password test
AuthenticateWithoutPassword(d, user, password, t) ==
    Done([d EXCEPT !.users = (@ \ {user}) \cup {[user EXCEPT !.last_login = t]}])

\* The body of authenticate_user once .first() returned `user`.
AuthenticateBody(d, user, password, t) ==
    LET v == verify_password(password, user.password_hash)
    IN  IF v.raised THEN Raised(v.exc, d)
        ELSE IF v.val
        THEN Done([d EXCEPT !.users = (@ \ {user}) \cup {[user EXCEPT !.last_login = t]}])
        ELSE Done(d)

\* UserManager.authenticate_user.  .first() without ORDER BY returns any one
\* of the rows the filter matches.
AuthenticateUser(p, username, password) ==
    LET matching == {u \in db.users :
                        (u.username = username \/ u.email = username) /\ u.is_active}
    IN  /\ frame[p] = Idle
        /\ IF matching = {}
           THEN /\ tx' = Scope(db, Done(db))
                /\ last' = Returned("authenticate_user", RetNone)
                /\ UNCHANGED <<db, now>>
           ELSE \E user \in matching :
                LET body == AuthenticateBody(db, user, password, now + 1)
                    ok == ~body.raised /\ body.work # db
                IN  /\ ok => now < MaxClock
                    /\ db' = GetSession(db, body)
                    /\ tx' = Scope(db, body)
                    /\ now' = IF ok THEN now + 1 ELSE now
                    /\ last' = Returned("authenticate_user",
                                        IF ok THEN RetDict([user EXCEPT !.last_login = now + 1])
                                        ELSE RetNone)
        /\ UNCHANGED <<engine, next_id, frame>>
        /\ UNCHANGED <<cryptoVars, hashVars, uiVars, validateVars, summaryVars, keyVars>>

\* datetime.utcnow() at a write.  Every login, session INSERT and message
\* INSERT reads the clock later than the writes before it; the number of
\* those writes stands for the time read.
UtcNow(t, n) == t + n.chat_sessions + n.chat_messages + 1

\* The name create_session stores when it is given none: "Chat " and the
\* minute of the call.
DefaultSessionName == <<"Chat ", "%Y-%m-%d %H:%M">>

\* The ChatSession row create_session builds.
NewSession(id, user_id, session_name, t) ==
    [id |-> id, user_id |-> user_id,
     session_name |-> IF session_name = None \/ session_name = <<>>
                      THEN DefaultSessionName ELSE session_name,
     updated_at |-> t]

\* The body of SessionManager.create_session
CreateSessionBody(e, d, new_session) ==
    IF EnforcesForeignKeys(e) /\ new_session.user_id \notin UserIds(d)
    THEN Raised("IntegrityError", d)
    ELSE Done([d EXCEPT !.chat_sessions = @ \cup {new_session}])

\* SessionManager.create_session
CreateSession(p, user_id, session_name) ==
    LET new_session == NewSession(next_id.chat_sessions + 1, user_id, session_name,
                                  UtcNow(now, next_id))
        body == CreateSessionBody(engine, db, new_session)
    IN  /\ frame[p] = Idle
        /\ body.raised \/ next_id.chat_sessions < MaxSessions
        /\ db' = GetSession(db, body)
        /\ tx' = Scope(db, body)
        /\ next_id' = IF body.raised THEN next_id
                      ELSE [next_id EXCEPT !.chat_sessions = new_session.id]
        /\ last' = Returned("create_session",
                            IF body.raised THEN RetNone ELSE RetDict(new_session))
        /\ UNCHANGED <<engine, now, frame>>
        /\ UNCHANGED <<cryptoVars, hashVars, uiVars, validateVars, summaryVars, keyVars>>

\* The body of SessionManager.save_message: the message is flushed, then the
\* session it names, when there is one, gets a new updated_at.  A
\* user_rating of 0 is NULL.
SaveMessageBody(e, d, id, session_id, user_message, bot_response, iv, t) ==
    LET u == Encrypt(encryption_key, iv, user_message)
        b == Encrypt(encryption_key, iv, bot_response)
    IN  IF u.raised THEN Raised(u.exc, d)
        ELSE IF b.raised THEN Raised(b.exc, d)
        ELSE IF EnforcesForeignKeys(e) /\ session_id \notin SessionIds(d)
        THEN Raised("IntegrityError", d)
        ELSE Done([d EXCEPT
                 !.chat_messages = @ \cup
                      {[id |-> id, session_id |-> session_id,
                        user_message |-> u.val, bot_response |-> b.val,
                        timestamp |-> t, is_bookmarked |-> FALSE, user_rating |-> 0]},
                 !.chat_sessions =
                      {IF s.id = session_id THEN [s EXCEPT !.updated_at = t] ELSE s :
                          s \in @}])

\* SessionManager.save_message
SaveMessage(p, session_id, user_message, bot_response, iv) ==
    LET id == next_id.chat_messages + 1
        body == SaveMessageBody(engine, db, id, session_id, user_message, bot_response, iv,
                                UtcNow(now, next_id))
    IN  /\ frame[p] = Idle
        /\ body.raised \/ next_id.chat_messages < MaxMessages
        /\ db' = GetSession(db, body)
        /\ tx' = Scope(db, body)
        /\ next_id' = IF body.raised THEN next_id
                      ELSE [next_id EXCEPT !.chat_messages = id]
        /\ last' = Returned("save_message", IF body.raised THEN RetNone ELSE RetId(id))
        /\ UNCHANGED <<engine, now, frame>>
        /\ UNCHANGED <<cryptoVars, hashVars, uiVars, validateVars, summaryVars, keyVars>>

\* The body of FeedbackManager.submit_feedback; message_id 0 is None.
SubmitFeedbackBody(e, d, feedback) ==
    IF EnforcesForeignKeys(e)
       /\ (feedback.user_id \notin UserIds(d)
           \/ (feedback.message_id # 0 /\ feedback.message_id \notin MessageIds(d)))
    THEN Raised("IntegrityError", d)
    ELSE Done([d EXCEPT !.user_feedback = @ \cup {feedback}])

\* FeedbackManager.submit_feedback
SubmitFeedback(p, user_id, message_id) ==
    LET feedback == [id |-> next_id.user_feedback + 1, user_id |-> user_id,
                     message_id |-> message_id]
        body == SubmitFeedbackBody(engine, db, feedback)
    IN  /\ frame[p] = Idle
        /\ body.raised \/ next_id.user_feedback < MaxFeedback
        /\ db' = GetSession(db, body)
        /\ tx' = Scope(db, body)
        /\ next_id' = IF body.raised THEN next_id
                      ELSE [next_id EXCEPT !.user_feedback = feedback.id]
        /\ last' = Returned("submit_feedback", RetBool(~body.raised))
        /\ UNCHANGED <<engine, now, frame>>
        /\ UNCHANGED <<cryptoVars, hashVars, uiVars, validateVars, summaryVars, keyVars>>

\* delete_session with no cascade from the session to its messages
DeleteSessionWithoutCascade(e, d, session_to_delete, done) ==
    LET messages == {m \in d.chat_messages : m.session_id = session_to_delete.id}
    IN  IF EnforcesForeignKeys(e) /\ messages # {}
        THEN Raised("IntegrityError", d)
        ELSE Done([d EXCEPT !.chat_sessions = @ \ {session_to_delete}])

\* The body of delete_session once the query found the session.
\* session.delete marks it; the flush that commit runs deletes the messages
\* the relationship cascades to, then the session.  Where foreign keys are
\* checked, deleting a message a feedback row points at raises, after the
\* messages in `done` were deleted.
DeleteSessionBody(e, d, session_to_delete, done) ==
    LET messages == {m \in d.chat_messages : m.session_id = session_to_delete.id}
        referenced == {m \in messages : \E f \in d.user_feedback : f.message_id = m.id}
    IN  IF EnforcesForeignKeys(e) /\ referenced # {}
        THEN Raised("IntegrityError",
                    [d EXCEPT !.chat_messages = @ \ (done \ referenced)])
        ELSE Done([d EXCEPT !.chat_messages = @ \ messages,
                            !.chat_sessions = @ \ {session_to_delete}])

\* SessionManager.delete_session
DeleteSession(p, session_id, user_id) ==
    LET found == {s \in db.chat_sessions : s.id = session_id /\ s.user_id = user_id}
    IN  /\ frame[p] = Idle
        /\ IF found = {}
           THEN /\ tx' = Scope(db, Done(db))
                /\ last' = Returned("delete_session", RetBool(FALSE))
                /\ UNCHANGED db
           ELSE \E session_to_delete \in found :
                \E done \in SUBSET {m \in db.chat_messages : m.session_id = session_id} :
                LET body == DeleteSessionBody(engine, db, session_to_delete, done)
                IN  /\ body.raised \/ done = {}
                    /\ db' = GetSession(db, body)
                    /\ tx' = Scope(db, body)
                    /\ last' = Returned("delete_session", RetBool(~body.raised))
        /\ UNCHANGED <<engine, next_id, now, frame>>
        /\ UNCHANGED <<cryptoVars, hashVars, uiVars, validateVars, summaryVars, keyVars>>

\* bookmark_message and rate_message finding the message by its id alone
MessagesById(d, message_id, user_id) ==
    {m \in d.chat_messages : m.id = message_id}

\* The query of bookmark_message and rate_message: the message with this id,
\* joined to its chat session, where the session's user_id is the caller's.
OwnedMessages(d, message_id, user_id) ==
    {m \in d.chat_messages :
        /\ m.id = message_id
        /\ \E s \in d.chat_sessions : s.id = m.session_id /\ s.user_id = user_id}

\* The body of bookmark_message once .first() returned `message`.
BookmarkMessageBody(d, message) ==
    Done([d EXCEPT !.chat_messages =
             (@ \ {message}) \cup {[message EXCEPT !.is_bookmarked = ~@]}])

\* SessionManager.bookmark_message
BookmarkMessage(p, message_id, user_id) ==
    LET found == OwnedMessages(db, message_id, user_id)
    IN  /\ frame[p] = Idle
        /\ IF found = {}
           THEN /\ tx' = Scope(db, Done(db))
                /\ last' = Returned("bookmark_message", RetBool(FALSE))
                /\ UNCHANGED db
           ELSE \E message \in found :
                LET body == BookmarkMessageBody(db, message)
                IN  /\ db' = GetSession(db, body)
                    /\ tx' = Scope(db, body)
                    /\ last' = Returned("bookmark_message", RetBool(TRUE))
        /\ UNCHANGED <<engine, next_id, now, frame>>
        /\ UNCHANGED <<cryptoVars, hashVars, uiVars, validateVars, summaryVars, keyVars>>

RatingMin == 1

RatingMax == 5

\* A rate_message that stores whatever rating it is given
RateMessageUnchecked(d, message, rating) ==
    Done([d EXCEPT !.chat_messages =
             (@ \ {message}) \cup {[message EXCEPT !.user_rating = rating]}])

\* The body of rate_message once .first() returned `message`.
RateMessageBody(d, message, rating) ==
    IF RatingMin <= rating /\ rating <= RatingMax
    THEN Done([d EXCEPT !.chat_messages =
                  (@ \ {message}) \cup {[message EXCEPT !.user_rating = rating]}])
    ELSE Done(d)

\* SessionManager.rate_message
RateMessage(p, message_id, user_id, rating) ==
    LET found == OwnedMessages(db, message_id, user_id)
    IN  /\ frame[p] = Idle
        /\ IF found = {}
           THEN /\ tx' = Scope(db, Done(db))
                /\ last' = Returned("rate_message", RetBool(FALSE))
                /\ UNCHANGED db
           ELSE \E message \in found :
                LET body == RateMessageBody(db, message, rating)
                IN  /\ db' = GetSession(db, body)
                    /\ tx' = Scope(db, body)
                    /\ last' = Returned("rate_message",
                                        RetBool(RatingMin <= rating /\ rating <= RatingMax))
        /\ UNCHANGED <<engine, next_id, now, frame>>
        /\ UNCHANGED <<cryptoVars, hashVars, uiVars, validateVars, summaryVars, keyVars>>

\* .order_by(desc(ChatSession.updated_at)): the rows, latest update first.
RECURSIVE OrderByUpdatedAtDesc(_)
OrderByUpdatedAtDesc(rows) ==
    IF rows = {} THEN <<>>
    ELSE LET first == CHOOSE s \in rows : \A r \in rows : r.updated_at <= s.updated_at
         IN  <<first>> \o OrderByUpdatedAtDesc(rows \ {first})

\* An ordering by timestamp with the latest row first
RECURSIVE OrderByTimestampDesc(_)
OrderByTimestampDesc(rows) ==
    IF rows = {} THEN <<>>
    ELSE LET first == CHOOSE m \in rows : \A r \in rows : r.timestamp <= m.timestamp
         IN  <<first>> \o OrderByTimestampDesc(rows \ {first})

\* .order_by(ChatMessage.timestamp): the rows, earliest first.
RECURSIVE OrderByTimestamp(_)
OrderByTimestamp(rows) ==
    IF rows = {} THEN <<>>
    ELSE LET first == CHOOSE m \in rows : \A r \in rows : m.timestamp <= r.timestamp
         IN  <<first>> \o OrderByTimestamp(rows \ {first})

\* .limit(limit)
Limit(rows, limit) ==
    SubSeq(rows, 1, IF Len(rows) < limit THEN Len(rows) ELSE limit)

\* SessionManager.get_user_sessions: dictionaries of the user's sessions,
\* latest update first, no more than `limit` of them.
get_user_sessions(d, user_id, limit) ==
    Limit(OrderByUpdatedAtDesc({s \in d.chat_sessions : s.user_id = user_id}), limit)

\* A text column read back: decrypt_data of it, or None when it holds
\* nothing.
DecryptColumn(key, column) ==
    IF column = None \/ column = <<>> THEN None ELSE Decrypt(key, column).val

\* SessionManager.get_session_messages: dictionaries of the session's
\* messages with their texts decrypted, in timestamp order.
get_session_messages(d, key, session_id) ==
    LET messages == OrderByTimestamp({m \in d.chat_messages : m.session_id = session_id})
    IN  [i \in 1..Len(messages) |->
            [id |-> messages[i].id,
             user_message |-> DecryptColumn(key, messages[i].user_message),
             bot_response |-> DecryptColumn(key, messages[i].bot_response),
             timestamp |-> messages[i].timestamp,
             is_bookmarked |-> messages[i].is_bookmarked,
             user_rating |-> messages[i].user_rating]]

----------------------------------------------------------------------------
(* The validation helpers (validators.py)                                  *)

\* The characters of the texts typed into the forms.  No text over them
\* spells a word the validators search for (SELECT, <script, password...).
UiChars == {"a", "b", "z", "A", "1", "!", "@", ".", " ", "'", "-"}

AsciiUpper == {"A"}

AsciiLower == {"a", "b", "z"}

AsciiLetters == AsciiUpper \cup AsciiLower

AsciiDigits == {"1"}

Whitespace == {" ", "\n"}

OverUiChars(s) == \A i \in 1..Len(s) : s[i] \in UiChars

\* What a validator returns: (is_valid, error_message)
Valid == [is_valid |-> TRUE, error |-> ""]

Invalid(error) == [is_valid |-> FALSE, error |-> error]

\* The part of s a pattern ending in $ has to match: $ also matches before
\* one trailing line break.
BeforeDollar(s) ==
    IF s # <<>> /\ s[Len(s)] = "\n" THEN SubSeq(s, 1, Len(s) - 1) ELSE s

\* re.match("^[...]+$", s) for a character class
MatchesClass(s, class) ==
    LET b == BeforeDollar(s)
    IN  b # <<>> /\ \A i \in 1..Len(b) : b[i] \in class

UsernameMinLength == 3

UsernameMaxLength == 50

\* UserValidator.validate_username
validate_username(username) ==
    IF username = <<>> THEN Invalid("Username is required")
    ELSE IF Len(username) < UsernameMinLength
    THEN Invalid("Username must be at least 3 characters long")
    ELSE IF Len(username) > UsernameMaxLength
    THEN Invalid("Username must be less than 50 characters")
    ELSE IF ~MatchesClass(username, AsciiLetters \cup AsciiDigits \cup {"_", "-"})
    THEN Invalid("Username can only contain letters, numbers, underscore, and hyphen")
    ELSE IF username[1] \notin AsciiLetters
    THEN Invalid("Username must start with a letter")
    ELSE Valid

\* re.match of email_pattern: local part, @, domain, a dot, two or more
\* letters.
MatchesEmailPattern(email) ==
    LET b == BeforeDollar(email)
        local == AsciiLetters \cup AsciiDigits \cup {".", "_", "%", "+", "-"}
        domain == AsciiLetters \cup AsciiDigits \cup {".", "-"}
    IN  \E at \in 1..Len(b), dot \in 1..Len(b) :
            /\ b[at] = "@" /\ b[dot] = "."
            /\ 1 < at /\ at + 1 < dot /\ dot + 2 <= Len(b)
            /\ \A i \in 1..(at - 1) : b[i] \in local
            /\ \A i \in (at + 1)..(dot - 1) : b[i] \in domain
            /\ \A i \in (dot + 1)..Len(b) : b[i] \in AsciiLetters

\* re.search of one of invalid_patterns: two dots in a row, a dot first, a
\* dot last.
HasInvalidDots(email) ==
    LET b == BeforeDollar(email)
    IN  \/ \E i \in 1..(Len(email) - 1) : email[i] = "." /\ email[i + 1] = "."
        \/ email # <<>> /\ email[1] = "."
        \/ email # <<>> /\ email[Len(email)] = "."
        \/ b # <<>> /\ b[Len(b)] = "."

EmailMaxLength == 255

\* UserValidator.validate_email
validate_email(email) ==
    IF email = <<>> THEN Invalid("Email is required")
    ELSE IF ~MatchesEmailPattern(email) THEN Invalid("Invalid email format")
    ELSE IF Len(email) > EmailMaxLength
    THEN Invalid("Email must be less than 255 characters")
    ELSE IF HasInvalidDots(email) THEN Invalid("Invalid email format")
    ELSE Valid

\* PASSWORD_MIN_LENGTH, when the environment does not set it
PasswordMinLength == 8

PasswordMaxLength == 128

PasswordSpecials ==
    {"!", "@", "#", "$", "%", "^", "&", "*", "(", ")", ",", ".", "?", "\"",
     ":", "{", "}", "|", "<", ">"}

Has(s, class) == \E i \in 1..Len(s) : s[i] \in class

\* The character types of has_upper, has_lower, has_digit, has_special the
\* password lacks.
MissingTypes(password) ==
    {class \in {AsciiUpper, AsciiLower, AsciiDigits, PasswordSpecials} :
        ~Has(password, class)}

\* password.lower() in weak_passwords
IsWeakPassword(password) ==
    CASE OverUiChars(password) -> FALSE

\* UserValidator.validate_password
validate_password(password) ==
    IF password = <<>> THEN Invalid("Password is required")
    ELSE IF Len(password) < PasswordMinLength
    THEN Invalid("Password must be at least {min_length} characters long")
    ELSE IF Len(password) > PasswordMaxLength
    THEN Invalid("Password must be less than 128 characters")
    ELSE IF Cardinality(MissingTypes(password)) > 1
    THEN Invalid("Password must contain at least three of: ...")
    ELSE IF IsWeakPassword(password)
    THEN Invalid("Password is too common. Please choose a stronger password")
    ELSE Valid

NameMaxLength == 100

\* UserValidator.validate_name
validate_name(name, field_name) ==
    IF name = <<>> \/ name = None THEN Valid
    ELSE IF Len(name) > NameMaxLength
    THEN Invalid("{field_name} must be less than 100 characters")
    ELSE IF ~MatchesClass(name, AsciiLetters \cup Whitespace \cup {"-", "'"})
    THEN Invalid("{field_name} can only contain letters, spaces, hyphens, and apostrophes")
    ELSE IF \A i \in 1..Len(name) : name[i] \in Whitespace
    THEN Invalid("{field_name} cannot be empty")
    ELSE Valid

\* The characters validate_phone_number removes before it looks at the
\* number.
PhoneFormatting == Whitespace \cup {"-", "(", ")", "."}

\* re.match(r'^\+?[\d]+$', cleaned_phone)
MatchesPhonePattern(cleaned_phone) ==
    LET b == BeforeDollar(cleaned_phone)
        digits == IF b # <<>> /\ b[1] = "+" THEN Tail(b) ELSE b
    IN  digits # <<>> /\ \A i \in 1..Len(digits) : digits[i] \in AsciiDigits

PhoneMinDigits == 7

PhoneMaxDigits == 15

\* UserValidator.validate_phone_number
validate_phone_number(phone) ==
    LET cleaned_phone == SelectSeq(phone, LAMBDA c : c \notin PhoneFormatting)
        digit_count == Len(SelectSeq(cleaned_phone, LAMBDA c : c \in AsciiDigits))
    IN  IF phone = <<>> \/ phone = None THEN Valid
        ELSE IF ~MatchesPhonePattern(cleaned_phone)
        THEN Invalid("Phone number can only contain digits, spaces, hyphens, parentheses, and + for international numbers")
        ELSE IF digit_count < PhoneMinDigits \/ digit_count > PhoneMaxDigits
        THEN Invalid("Phone number must contain 7-15 digits")
        ELSE Valid

\* re.search of one of dangerous_patterns.  The third pattern is a quote, a
\* backtick (the symbol BACKTICK), a semicolon, an asterisk or two hyphens;
\* the others need a keyword, or digits around an equals sign.
MatchesDangerousPattern(input_string) ==
    \/ Has(input_string, {"'", "\"", "BACKTICK", ";", "*"})
    \/ \E i \in 1..(Len(input_string) - 1) :
          input_string[i] = "-" /\ input_string[i + 1] = "-"
    \/ CASE OverUiChars(input_string) -> FALSE

\* SecurityValidator.validate_sql_injection
validate_sql_injection(input_string) ==
    IF input_string = <<>> THEN Valid
    ELSE IF MatchesDangerousPattern(input_string)
    THEN Invalid("Input contains potentially harmful content")
    ELSE Valid

\* re.search of one of xss_patterns, or of suspicious_patterns: each needs
\* a "<", a ":" or an "=".
MatchesScriptPattern(input_string) ==
    CASE OverUiChars(input_string) -> FALSE

\* SecurityValidator.validate_xss_attempt
validate_xss_attempt(input_string) ==
    IF input_string = <<>> THEN Valid
    ELSE IF MatchesScriptPattern(input_string)
    THEN Invalid("Input contains potentially harmful content")
    ELSE Valid

\* str.strip() leaves nothing
IsBlank(s) == \A i \in 1..Len(s) : s[i] \in Whitespace

MessageMaxLength == 5000

\* ChatValidator.validate_message
validate_message(message) ==
    IF message = <<>> \/ IsBlank(message) THEN Invalid("Message cannot be empty")
    ELSE IF Len(message) > MessageMaxLength
    THEN Invalid("Message must be less than 5000 characters")
    ELSE IF MatchesScriptPattern(message)
    THEN Invalid("Message contains potentially harmful content")
    ELSE Valid

\* A composite validator that returns at its first failed check
FirstError(checks) ==
    LET failed == SelectSeq(checks, LAMBDA c : ~c[2].is_valid)
    IN  IF failed = <<>> THEN <<>> ELSE <<Head(failed)>>

\* The errors list a composite validator builds, and what it returns:
\* (len(errors) == 0, errors)
Errors(checks) ==
    SelectSeq(checks, LAMBDA c : ~c[2].is_valid)

Checked(checks) ==
    [is_valid |-> Errors(checks) = <<>>,
     errors |-> [i \in 1..Len(Errors(checks)) |->
                    <<Errors(checks)[i][1], Errors(checks)[i][2].error>>]]

\* A check a composite validator makes only `if value:`
Optional(label, value, result) ==
    IF value = <<>> \/ value = None THEN <<>> ELSE << <<label, result>> >>

\* CompositeValidator.validate_user_registration
validate_user_registration(user_data) ==
    Checked(<< <<"Username", validate_username(user_data.username)>>,
               <<"Username", validate_sql_injection(user_data.username)>>,
               <<"Email", validate_email(user_data.email)>>,
               <<"Password", validate_password(user_data.password)>> >>
            \o Optional("First name", user_data.first_name,
                        validate_name(user_data.first_name, "First name"))
            \o Optional("Last name", user_data.last_name,
                        validate_name(user_data.last_name, "Last name"))
            \o Optional("Phone", user_data.phone,
                        validate_phone_number(user_data.phone)))

\* CompositeValidator.validate_chat_input, without a session name
validate_chat_input(message) ==
    Checked(<< <<"Message", validate_message(message)>>,
               <<"Message", validate_sql_injection(message)>>,
               <<"Message", validate_xss_attempt(message)>> >>)

\* validate_user_data and validate_chat_message, the module's functions
validate_user_data(user_data) == validate_user_registration(user_data)

validate_chat_message(message) == validate_chat_input(message)

----------------------------------------------------------------------------
(* The Streamlit script (frontend.py).  Each action is one run of main():  *)
(* the run a widget event of the browser session starts, or the run        *)
(* st.rerun() starts.  The one script thread of the session runs every     *)
(* manager call it makes to its end.                                       *)

\* st.session_state holding no key, as before the first run and after a
\* logout.  `keys` are the keys present among logged_in, page, user_id,
\* username, selected_session_id and messages; confirm_delete holds the
\* confirm_delete_<id> flags present.  An absent or None id is 0.
LoggedOut ==
    [keys |-> {}, logged_in |-> FALSE, user_id |-> 0, username |-> <<>>,
     selected_session_id |-> 0, messages |-> <<>>, page |-> "",
     confirm_delete |-> {}]

\* The navigation selectbox when the run did not render the sidebar: its
\* widget state is dropped.
NoWidget == [index |-> -1, value |-> 0]

\* What a run left on the page: the page rendered and the st.error messages
\* on it.
Screen(page, errors) == [page |-> page, errors |-> errors]

\* main, the initialisation of st.session_state
MainInit(ss) ==
    LET a == IF "logged_in" \in ss.keys THEN ss
             ELSE [ss EXCEPT !.keys = @ \cup {"logged_in"}, !.logged_in = FALSE]
    IN  IF "page" \in a.keys THEN a
        ELSE [a EXCEPT !.keys = @ \cup {"page"}, !.page = "chat"]

\* page_options, each as str.split(" ") cuts it: a pictograph and a word, or
\* the two words of "Summarize Report".
PageOptions ==
    << <<"U+1F4AC", "Chat">>, <<"U+1F464", "Profile">>, <<"U+1F4DA", "History">>,
       <<"U+1F527", "Settings">>, <<"Summarize", "Report">> >>

PageKeys == <<"chat", "profile", "history", "settings", "Summarize Report">>

\* str.lower() of the words of the options
Lower(word) ==
    CASE word = "Chat" -> "chat" [] word = "Profile" -> "profile"
      [] word = "History" -> "history" [] word = "Settings" -> "settings"
      [] word = "Report" -> "report" [] word = "Summarize" -> "summarize"
      [] OTHER -> word

\* page.split(" ")[1].lower()
PageOf(option) == Lower(option[2])

\* main, the navigation of the sidebar.  `selected` is the option the user
\* picked to start this run (0: none).  Without a pick the selectbox
\* returns the value it holds when it was created with this index, and the
\* option at the index when it is a new widget; a pick is taken as
\* delivered.
Navigation(ss, widget, selected) ==
    LET known == \E i \in 1..Len(PageKeys) : PageKeys[i] = ss.page
        current_index == IF known THEN (CHOOSE i \in 1..Len(PageKeys) : PageKeys[i] = ss.page) - 1
                         ELSE 0
        value == IF selected # 0 THEN selected
                 ELSE IF widget.index = current_index THEN widget.value
                 ELSE current_index + 1
    IN  [session_state |-> [ss EXCEPT !.page = PageOf(PageOptions[value])],
         nav |-> [index |-> current_index, value |-> value]]

\* chat_interface, the messages shown for the rows get_session_messages
\* returned: the question, then the answer, of each row that has one.
RECURSIVE DisplayMessages(_)
DisplayMessages(db_messages) ==
    IF db_messages = <<>> THEN <<>>
    ELSE LET msg == Head(db_messages)
             user == IF msg.user_message = None \/ msg.user_message = <<>> THEN <<>>
                     ELSE << [role |-> "user", content |-> msg.user_message] >>
             bot == IF msg.bot_response = None \/ msg.bot_response = <<>> THEN <<>>
                    ELSE << [role |-> "assistant", content |-> msg.bot_response] >>
         IN  user \o bot \o DisplayMessages(Tail(db_messages))

\* chat_interface, the loading of st.session_state.messages: when the key
\* is absent or the list empty, the selected session's messages are read
\* from the database, and the list is empty when no session is selected.
LoadMessages(ss, d, key) ==
    LET a == IF "selected_session_id" \in ss.keys THEN ss
             ELSE [ss EXCEPT !.keys = @ \cup {"selected_session_id"},
                             !.selected_session_id = 0]
    IN  IF "messages" \notin a.keys \/ a.messages = <<>>
        THEN [a EXCEPT !.keys = @ \cup {"messages"},
                       !.messages = IF a.selected_session_id # 0
                                    THEN DisplayMessages(get_session_messages(
                                             d, key, a.selected_session_id))
                                    ELSE <<>>]
        ELSE a

\* main, the dispatch on st.session_state.page: the page function called.
\* summarization_page reads a name that is not defined, which main's
\* handler reports.
Dispatch(page) ==
    CASE page = "chat" -> Screen("chat", {})
      [] page = "profile" -> Screen("profile", {})
      [] page = "history" -> Screen("history", {})
      [] page = "Summarize Report" -> Screen("summarize", {"Error loading page"})
      [] page = "settings" -> Screen("settings", {})
      [] OTHER -> Screen("none", {})

\* main after the sidebar, with no button pressed: the page is rendered.
Render(ss, d, key) ==
    [session_state |-> IF ss.page = "chat" THEN LoadMessages(ss, d, key) ELSE ss,
     screen |-> Dispatch(ss.page)]

\* A run of main() that no widget event started: the first run of the
\* browser session, and the run after st.rerun().
Run ==
    LET ss == MainInit(session_state)
        n == Navigation(ss, nav, 0)
        r == Render(n.session_state, db, encryption_key)
    IN  /\ rerun # ""
        /\ rerun' = ""
        /\ IF ~ss.logged_in
           THEN /\ session_state' = ss
                /\ nav' = NoWidget
                /\ screen' = Screen("login", {})
           ELSE /\ session_state' = r.session_state
                /\ nav' = n.nav
                /\ screen' = r.screen
        /\ UNCHANGED <<cryptoVars, hashVars, dbVars, validateVars, summaryVars, keyVars>>

\* The sidebar selectbox: the user picks the option at `selected`.
NavSelect(selected) ==
    LET n == Navigation(MainInit(session_state), nav, selected)
        r == Render(n.session_state, db, encryption_key)
    IN  /\ rerun = ""
        /\ session_state.logged_in
        /\ screen.page # "login"
        /\ session_state' = r.session_state
        /\ nav' = n.nav
        /\ screen' = r.screen
        /\ UNCHANGED rerun
        /\ UNCHANGED <<cryptoVars, hashVars, dbVars, validateVars, summaryVars, keyVars>>

\* main, the New Chat button of the sidebar
NewChat ==
    LET n == Navigation(MainInit(session_state), nav, 0)
    IN  /\ rerun = ""
        /\ session_state.logged_in
        /\ screen.page # "login"
        /\ session_state' =
              [n.session_state EXCEPT !.keys = @ \cup {"selected_session_id", "messages"},
                                      !.selected_session_id = 0,
                                      !.messages = <<>>]
        /\ nav' = n.nav
        /\ screen' = Screen("none", {})
        /\ rerun' = "new_chat"
        /\ UNCHANGED <<cryptoVars, hashVars, dbVars, validateVars, summaryVars, keyVars>>

\* main's Logout button deleting no key but logged_in
LogoutKeepingState(ss) ==
    [ss EXCEPT !.keys = @ \ {"logged_in"}, !.logged_in = FALSE]

\* main's Logout button: every key of st.session_state is deleted.
DeleteEveryKey(ss) == LoggedOut

\* main, the Logout button of the sidebar
Logout ==
    LET n == Navigation(MainInit(session_state), nav, 0)
    IN  /\ rerun = ""
        /\ session_state.logged_in
        /\ screen.page # "login"
        /\ session_state' = DeleteEveryKey(n.session_state)
        /\ nav' = n.nav
        /\ screen' = Screen("none", {})
        /\ rerun' = "logout"
        /\ UNCHANGED <<cryptoVars, hashVars, dbVars, validateVars, summaryVars, keyVars>>

\* UserManager.create_user from its query to its return
CreateUserCall(d, id, a, iv) ==
    IF \E u \in d.users : u.username = a.username \/ u.email = a.email
    THEN [body |-> Done(d), ret |-> RetNone]
    ELSE LET new_user == NewUser(id, a, iv)
             body == CreateUserBody(d, new_user)
         IN  [body |-> body,
              ret |-> IF body.raised THEN RetNone ELSE RetDict(new_user.val)]

\* login_page, the Register button of register_form
RegisterSubmit(reg_username, reg_email, reg_password, reg_first_name, data_consent, terms_consent, iv) ==
    LET a == [username |-> reg_username, email |-> reg_email,
              password |-> reg_password,
              first_name |-> IF reg_first_name = <<>> THEN None ELSE reg_first_name,
              last_name |-> None]
        call == CreateUserCall(db, next_id.users + 1, a, iv)
        created == call.ret.kind = "dict"
    IN  /\ rerun = ""
        /\ screen.page = "login"
        /\ ~session_state.logged_in
        /\ IF /\ reg_username # <<>> /\ reg_email # <<>> /\ reg_password # <<>>
              /\ data_consent /\ terms_consent
           THEN /\ created => next_id.users < MaxUsers
                /\ db' = GetSession(db, call.body)
                /\ tx' = Scope(db, call.body)
                /\ next_id' = IF created THEN [next_id EXCEPT !.users = @ + 1]
                              ELSE next_id
                /\ last' = Returned("create_user", call.ret)
                /\ screen' = Screen("login",
                      IF created THEN {}
                      ELSE {"Failed to create account. Username or email might already exist."})
           ELSE /\ UNCHANGED <<db, tx, next_id, last>>
                /\ screen' = Screen("login", {"Please fill in required fields and accept terms"})
        /\ session_state' = MainInit(session_state)
        /\ nav' = NoWidget
        /\ UNCHANGED <<engine, now, frame, rerun>>
        /\ UNCHANGED <<cryptoVars, hashVars, validateVars, summaryVars, keyVars>>

\* login_page, the Login button of login_form
LoginSubmit(username, password) ==
    LET ss == MainInit(session_state)
        matching == {u \in db.users :
                        (u.username = username \/ u.email = username) /\ u.is_active}
    IN  /\ rerun = ""
        /\ screen.page = "login"
        /\ ~session_state.logged_in
        /\ nav' = NoWidget
        /\ IF username = <<>> \/ password = <<>>
           THEN /\ screen' = Screen("login", {"Please fill in all fields"})
                /\ session_state' = ss
                /\ UNCHANGED <<db, tx, now, last, rerun>>
           ELSE IF matching = {}
           THEN /\ tx' = Scope(db, Done(db))
                /\ last' = Returned("authenticate_user", RetNone)
                /\ screen' = Screen("login", {"Invalid username or password"})
                /\ session_state' = ss
                /\ UNCHANGED <<db, now, rerun>>
           ELSE \E user \in matching :
                LET body == AuthenticateBody(db, user, password, now + 1)
                    ok == ~body.raised /\ body.work # db
                IN  /\ ok => now < MaxClock
                    /\ db' = GetSession(db, body)
                    /\ tx' = Scope(db, body)
                    /\ now' = IF ok THEN now + 1 ELSE now
                    /\ last' = Returned("authenticate_user",
                                        IF ok THEN RetDict([user EXCEPT !.last_login = now + 1])
                                        ELSE RetNone)
                    /\ session_state' =
                          IF ok THEN [ss EXCEPT !.keys = @ \cup {"user_id", "username", "logged_in"},
                                                !.user_id = user.id,
                                                !.username = user.username,
                                                !.logged_in = TRUE]
                          ELSE ss
                    /\ screen' = Screen("login",
                                        IF ok THEN {} ELSE {"Invalid username or password"})
                    /\ rerun' = IF ok THEN "login" ELSE rerun
        /\ UNCHANGED <<engine, next_id, frame>>
        /\ UNCHANGED <<cryptoVars, hashVars, validateVars, summaryVars, keyVars>>

\* query[:30]
SessionNameLength == 30

\* chat_interface, the name of the session a first question creates:
\* f"Chat about '{query[:30]}...'"
NewSessionName(query) ==
    <<"Chat about '">>
    \o SubSeq(query, 1, IF Len(query) < SessionNameLength THEN Len(query)
                        ELSE SessionNameLength)
    \o <<"...'">>

\* The assistant message of the guided dialog
ClarifyingMessage == <<"I understand you're asking about symptoms. ...">>

\* chat_interface, the Send button.  predicted_intent is what the intent
\* classifier answers and response what get_response returns (empty when the
\* chain failed).
ChatSend(query, predicted_intent, response, iv) ==
    LET n == Navigation(MainInit(session_state), nav, 0)
        ss == LoadMessages(n.session_state, db, encryption_key)
        asked == [ss EXCEPT !.messages = Append(@, [role |-> "user", content |-> query])]
        selected == ss.selected_session_id
        new_session == NewSession(next_id.chat_sessions + 1, ss.user_id,
                                  NewSessionName(query), UtcNow(now, next_id))
        creating == CreateSessionBody(engine, db, new_session)
        created == IF selected = 0 THEN creating ELSE Done(db)
        session_id == IF selected = 0 THEN new_session.id ELSE selected
        db1 == GetSession(db, created)
        next1 == IF selected = 0 /\ ~created.raised
                 THEN [next_id EXCEPT !.chat_sessions = new_session.id] ELSE next_id
        saving == SaveMessageBody(engine, db1, next_id.chat_messages + 1,
                                  session_id, query, response, iv, UtcNow(now, next1))
        opened == [asked EXCEPT !.selected_session_id = session_id]
    IN  /\ rerun = ""
        /\ screen.page = "chat"
        /\ n.session_state.page = "chat"
        /\ nav' = n.nav
        /\ IF IsBlank(query)
           THEN /\ session_state' = ss
                /\ screen' = Screen("chat", {})
                /\ UNCHANGED <<db, tx, next_id, last, rerun>>
           ELSE IF predicted_intent = "personal_inquiry"
           THEN /\ session_state' =
                      [asked EXCEPT !.messages =
                          Append(@, [role |-> "assistant", content |-> ClarifyingMessage])]
                /\ screen' = Screen("chat", {})
                /\ rerun' = "send"
                /\ UNCHANGED <<db, tx, next_id, last>>
           ELSE IF created.raised
           THEN /\ session_state' = asked
                /\ screen' = Screen("chat", {"Could not create a new chat session."})
                /\ tx' = Scope(db, created)
                /\ last' = Returned("create_session", RetNone)
                /\ UNCHANGED <<db, next_id, rerun>>
           ELSE IF response = <<>>
           THEN /\ selected = 0 => next_id.chat_sessions < MaxSessions
                /\ session_state' = opened
                /\ screen' = Screen("chat", {})
                /\ rerun' = "send"
                /\ db' = db1
                /\ next_id' = next1
                /\ IF selected = 0
                   THEN /\ tx' = Scope(db, created)
                        /\ last' = Returned("create_session", RetDict(new_session))
                   ELSE UNCHANGED <<tx, last>>
           ELSE /\ selected = 0 => next_id.chat_sessions < MaxSessions
                /\ saving.raised \/ next_id.chat_messages < MaxMessages
                /\ session_state' =
                      [opened EXCEPT !.messages =
                          Append(@, [role |-> "assistant", content |-> response])]
                /\ screen' = Screen("chat", {})
                /\ rerun' = "send"
                /\ db' = GetSession(db1, saving)
                /\ tx' = Scope(db1, saving)
                /\ last' = Returned("save_message",
                                    IF saving.raised THEN RetNone
                                    ELSE RetId(next_id.chat_messages + 1))
                /\ next_id' = IF saving.raised THEN next1
                              ELSE [next1 EXCEPT !.chat_messages = @ + 1]
        /\ Len(session_state'.messages) <= MaxShown
        /\ UNCHANGED <<engine, now, frame>>
        /\ UNCHANGED <<cryptoVars, hashVars, validateVars, summaryVars, keyVars>>

\* chat_interface, the Clear Chat button
ClearChat ==
    LET n == Navigation(MainInit(session_state), nav, 0)
        ss == LoadMessages(n.session_state, db, encryption_key)
    IN  /\ rerun = ""
        /\ screen.page = "chat"
        /\ n.session_state.page = "chat"
        /\ session_state' = [ss EXCEPT !.messages = <<>>]
        /\ nav' = n.nav
        /\ screen' = Screen("chat", {})
        /\ rerun' = "clear_chat"
        /\ UNCHANGED <<cryptoVars, hashVars, dbVars, validateVars, summaryVars, keyVars>>

\* session_history_page asks for no more than this many sessions.
HistoryLimit == 100

\* The ids of the sessions session_history_page lists, each with its Open,
\* Delete and Confirm Delete buttons.
Listed(ss, d) ==
    LET sessions == get_user_sessions(d, ss.user_id, HistoryLimit)
    IN  {sessions[i].id : i \in 1..Len(sessions)}

\* session_history_page, the Open button of a session
OpenSession(session_id) ==
    LET n == Navigation(MainInit(session_state), nav, 0)
        ss == n.session_state
    IN  /\ rerun = ""
        /\ screen.page = "history"
        /\ ss.page = "history"
        /\ session_id \in Listed(ss, db)
        /\ session_state' =
              [ss EXCEPT !.keys = (@ \cup {"selected_session_id"}) \ {"messages"},
                         !.selected_session_id = session_id,
                         !.page = "chat",
                         !.messages = <<>>]
        /\ nav' = n.nav
        /\ screen' = Screen("history", {})
        /\ rerun' = "open"
        /\ UNCHANGED <<cryptoVars, hashVars, dbVars, validateVars, summaryVars, keyVars>>

\* session_history_page, the Delete button of a session
DeleteClick(session_id) ==
    LET n == Navigation(MainInit(session_state), nav, 0)
        ss == n.session_state
    IN  /\ rerun = ""
        /\ screen.page = "history"
        /\ ss.page = "history"
        /\ session_id \in Listed(ss, db)
        /\ session_state' =
              [ss EXCEPT !.confirm_delete =
                  {f \in @ : f.session_id # session_id}
                  \cup {[session_id |-> session_id, value |-> TRUE]}]
        /\ nav' = n.nav
        /\ screen' = Screen("history", {})
        /\ UNCHANGED rerun
        /\ UNCHANGED <<cryptoVars, hashVars, dbVars, validateVars, summaryVars, keyVars>>

\* session_history_page, the Confirm Delete button of a session
ConfirmDelete(session_id) ==
    LET n == Navigation(MainInit(session_state), nav, 0)
        ss == n.session_state
        found == {s \in db.chat_sessions : s.id = session_id /\ s.user_id = ss.user_id}
    IN  /\ rerun = ""
        /\ screen.page = "history"
        /\ ss.page = "history"
        /\ session_id \in Listed(ss, db)
        /\ IF found = {}
           THEN /\ tx' = Scope(db, Done(db))
                /\ last' = Returned("delete_session", RetBool(FALSE))
                /\ UNCHANGED db
           ELSE \E session_to_delete \in found :
                \E done \in SUBSET {m \in db.chat_messages : m.session_id = session_id} :
                LET body == DeleteSessionBody(engine, db, session_to_delete, done)
                IN  /\ body.raised \/ done = {}
                    /\ db' = GetSession(db, body)
                    /\ tx' = Scope(db, body)
                    /\ last' = Returned("delete_session", RetBool(~body.raised))
        /\ session_state' =
              [ss EXCEPT !.confirm_delete =
                  {f \in @ : f.session_id # session_id}
                  \cup {[session_id |-> session_id, value |-> FALSE]}]
        /\ nav' = n.nav
        /\ screen' = Screen("history", {})
        /\ rerun' = "delete"
        /\ UNCHANGED <<engine, next_id, now, frame>>
        /\ UNCHANGED <<cryptoVars, hashVars, validateVars, summaryVars, keyVars>>

\* A caller's get_user_sessions(user_id, limit)
GetUserSessions(p, user_id, limit) ==
    /\ frame[p] = Idle
    /\ tx' = Scope(db, Done(db))
    /\ last' = Returned("get_user_sessions",
                        [kind |-> "list", list |-> get_user_sessions(db, user_id, limit)])
    /\ UNCHANGED <<engine, db, next_id, now, frame>>
    /\ UNCHANGED <<cryptoVars, hashVars, uiVars, validateVars, summaryVars, keyVars>>

----------------------------------------------------------------------------
(* The summarizer (summarizer.py)                                          *)

\* Python values get_huggingface_summary can return.
PyStr(s) == [type |-> "str", val |-> s]

PyNone == [type |-> "NoneType"]

\* What one requests.post can end with: an exception (timeout, connection
\* error), or a response with a status code and a body.  The body of a 200
\* response is JSON of the documented shape, text that is no JSON, JSON of
\* another shape, or JSON of the documented shape whose summary_text is null.
Posts ==
    {"exception", "200 summary", "200 no json", "200 other shape", "200 null summary",
     "503 loading", "503 busy", "500"}

StatusCode(response) ==
    CASE response \in {"200 summary", "200 no json", "200 other shape",
                       "200 null summary"} -> "200"
      [] response \in {"503 loading", "503 busy"} -> "503"
      [] OTHER -> "500"

\* "is currently loading" in response.text
IsLoading(response) == response = "503 loading"

\* summary = response.json(); return summary[0]['summary_text'], inside the
\* try block: a body that is no JSON or has another shape raises, and the
\* handler returns its message.
SummaryText(response) ==
    CASE response = "200 summary" -> Return(PyStr(<<"summary_text">>))
      [] response = "200 null summary" -> Return(PyNone)
      [] response = "200 no json" -> Raise("JSONDecodeError")
      [] OTHER -> Raise("KeyError")

\* The except clause: the message is printed and returned.
FailedToGetSummary(e) == PyStr(<<"Failed to get summary from Hugging Face API: ", e>>)

Summary(response) ==
    IF SummaryText(response).raised THEN FailedToGetSummary(SummaryText(response).exc)
    ELSE SummaryText(response).val

\* What a call that is sent the responses `first` and, if it asks again,
\* `second` returns, and the POSTs it sent.  hf_token is HF_TOKEN of the
\* environment, None when it is not set.
Summarize(text, hf_token, first, second) ==
    IF text = <<>>
    THEN [posts |-> <<>>, value |-> PyStr(<<"No text provided to summarize.">>)]
    ELSE IF hf_token = None \/ hf_token = <<>>
    THEN [posts |-> <<>>,
          value |-> PyStr(<<"ERROR: Hugging Face API token (HF_TOKEN) not found in environment.">>)]
    ELSE IF first = "exception"
    THEN [posts |-> <<first>>, value |-> FailedToGetSummary("RequestException")]
    ELSE IF StatusCode(first) = "200"
    THEN [posts |-> <<first>>, value |-> Summary(first)]
    ELSE IF StatusCode(first) = "503" /\ IsLoading(first)
    THEN [posts |-> <<first, second>>,
          value |-> IF second = "exception" THEN FailedToGetSummary("RequestException")
                    ELSE IF StatusCode(second) = "200" THEN Summary(second)
                    ELSE PyStr(<<"Error after retry: ", StatusCode(second), " - ", second>>)]
    ELSE [posts |-> <<first>>,
          value |-> PyStr(<<"Error: ", StatusCode(first), " - ", first>>)]

\* A text st.cache_data holds no value for.
NotCached == [type |-> "not cached"]

\* The texts handed to the summarizer.
SummaryTexts == {<<>>, <<"a">>, <<"b">>}

SummaryStart ==
    /\ hf_cache = [text \in SummaryTexts |-> NotCached]
    /\ hf_call = NoCall

\* get_huggingface_summary(text) under @st.cache_data: a text summarized
\* before gets the value stored then and nothing is sent.
GetHuggingfaceSummary(text, hf_token, first, second) ==
    LET call == Summarize(text, hf_token, first, second)
    IN  /\ IF hf_cache[text] # NotCached
           THEN /\ hf_call' = [text |-> text, posts |-> <<>>,
                               result |-> Return(hf_cache[text])]
                /\ UNCHANGED hf_cache
           ELSE /\ hf_call' = [text |-> text, posts |-> call.posts,
                               result |-> Return(call.value)]
                /\ hf_cache' = [hf_cache EXCEPT ![text] = call.value]
        /\ UNCHANGED <<cryptoVars, hashVars, dbVars, uiVars, validateVars, keyVars>>

----------------------------------------------------------------------------
(* EncryptionManager instances and the environment (encryption.py)         *)

\* The variables _get_or_create_key reads.
EnvNames == {"ENCRYPTION_KEY", "ENCRYPTION_PASSWORD", "ENCRYPTION_SALT"}

\* The value of a variable that is not set, and a value whose bytes are no
\* UTF-8: os.getenv decodes them to lone surrogates, which str.encode()
\* refuses.
Unset == "unset"

Undecodable == "U+DCFF"

\* What each variable may be set to.  "k1" is a Fernet key, "bad" is a text
\* that is none.
EnvValues ==
    [ENCRYPTION_KEY |-> {"", "k1", "bad", Undecodable},
     ENCRYPTION_PASSWORD |-> {"p1", Undecodable},
     ENCRYPTION_SALT |-> {"s1"}]

DefaultPassword == "default_medical_chatbot_key_2024"

DefaultSalt == "medical_chatbot_salt"

\* os.getenv(name, default)
Getenv(env, name, default) == IF env[name] = Unset THEN default ELSE env[name]

\* str.encode() of a value of the environment
EnvEncode(s) == IF s = Undecodable THEN Raise("UnicodeEncodeError") ELSE Return(s)

\* base64.urlsafe_b64encode(kdf.derive(password)): PBKDF2-HMAC-SHA256 with
\* 100000 iterations, as a function of the password and the salt that gives
\* different keys for different arguments.
Pbkdf2(password, salt) == "pbkdf2(" \o password \o "," \o salt \o ")"

\* A _get_or_create_key that does not read ENCRYPTION_KEY
DeriveKeyOnly(env) ==
    LET password == EnvEncode(Getenv(env, "ENCRYPTION_PASSWORD", DefaultPassword))
        salt == EnvEncode(Getenv(env, "ENCRYPTION_SALT", DefaultSalt))
    IN  IF salt.raised THEN salt
        ELSE IF password.raised THEN password
        ELSE Return(Pbkdf2(password.val, salt.val))

\* EncryptionManager._get_or_create_key under the environment env
get_or_create_key(env) ==
    LET key_string == env["ENCRYPTION_KEY"]
        password == EnvEncode(Getenv(env, "ENCRYPTION_PASSWORD", DefaultPassword))
        salt == EnvEncode(Getenv(env, "ENCRYPTION_SALT", DefaultSalt))
    IN  IF key_string # Unset /\ key_string # "" /\ ~EnvEncode(key_string).raised
        THEN Return(key_string)
        ELSE IF salt.raised THEN salt
        ELSE IF password.raised THEN password
        ELSE Return(Pbkdf2(password.val, salt.val))

\* Fernet(key) accepts 32 url-safe base64-encoded bytes: a key Fernet
\* generated, or the encoded output of the derivation.
IsFernetKey(key) ==
    \/ key \in Keys
    \/ \E password \in EnvValues.ENCRYPTION_PASSWORD \cup {DefaultPassword},
          salt \in EnvValues.ENCRYPTION_SALT \cup {DefaultSalt} :
           key = Pbkdf2(password, salt)

\* EncryptionManager.__init__: the instance's encryption_key, or the
\* exception the constructor raises.
NewEncryptionManager(env) ==
    LET key == get_or_create_key(env)
    IN  IF key.raised THEN key
        ELSE IF ~IsFernetKey(key.val) THEN Raise("ValueError")
        ELSE Return(key.val)

\* No instance yet.
NoManager == [environ |-> [name \in EnvNames |-> Unset], init |-> NoCall]

KeyStart ==
    /\ environ = [name \in EnvNames |-> Unset]
    /\ managers = [i \in 1..2 |-> NoManager]
    /\ used = [enc |-> 0, dec |-> 0]

\* An instance is still to be created: the environment is read by
\* constructors only, and changes after the last one are not followed.
AwaitingManager == \E i \in DOMAIN managers : managers[i].init = NoCall

\* os.environ[name] = value, or the variable set before the process starts
Putenv(name, value) ==
    /\ AwaitingManager
    /\ environ' = [environ EXCEPT ![name] = value]
    /\ UNCHANGED <<managers, used>>
    /\ UNCHANGED <<cryptoVars, hashVars, dbVars, uiVars, validateVars, summaryVars>>

\* del os.environ[name]
Unsetenv(name) ==
    /\ AwaitingManager
    /\ environ' = [environ EXCEPT ![name] = Unset]
    /\ UNCHANGED <<managers, used>>
    /\ UNCHANGED <<cryptoVars, hashVars, dbVars, uiVars, validateVars, summaryVars>>

\* EncryptionManager() under the present environment: the i-th instance
CreateManager(i) ==
    /\ managers[i].init = NoCall
    /\ managers' = [managers EXCEPT
                        ![i] = [environ |-> environ, init |-> NewEncryptionManager(environ)]]
    /\ UNCHANGED <<environ, used>>
    /\ UNCHANGED <<cryptoVars, hashVars, dbVars, uiVars, validateVars, summaryVars>>

\* The instance was constructed.
Constructed(manager) == manager.init # NoCall /\ ~manager.init.raised

\* manager.encrypt(data) of instance i
ManagerEncrypt(i, data, iv) ==
    /\ Constructed(managers[i])
    /\ enc_in' = data
    /\ enc_out' = Encrypt(managers[i].init.val, iv, data)
    /\ used' = [used EXCEPT !.enc = i]
    /\ UNCHANGED <<encryption_key, dec_in, dec_out, environ, managers>>
    /\ UNCHANGED <<hashVars, dbVars, uiVars, validateVars, summaryVars>>

\* manager.decrypt of instance i, applied to what the last encrypt returned
ManagerDecrypt(i) ==
    /\ Constructed(managers[i])
    /\ enc_out # NoCall
    /\ ~enc_out.raised
    /\ dec_in' = enc_out.val
    /\ dec_out' = Decrypt(managers[i].init.val, enc_out.val)
    /\ used' = [used EXCEPT !.dec = i]
    /\ UNCHANGED <<encryption_key, enc_in, enc_out, environ, managers>>
    /\ UNCHANGED <<hashVars, dbVars, uiVars, validateVars, summaryVars>>

----------------------------------------------------------------------------
(* Specifications                                                          *)

\* The strings the calls are made with.  Nothing keeps a user name from
\* being another account's e-mail address, so both come from one set.
Idents == {<<"a">>, <<"b">>}

\* Passwords at registration, and at login.
NewPasswords == {<<"a">>, <<"U+D800">>}

Passwords == {<<"a">>, <<"U+00E9">>, <<"U+D800">>}

FirstNames == {None, <<"a">>}

UserMessages == {<<"a">>}

BotResponses == {<<"a">>, <<"U+D800">>}

\* The IV draws followed in the database specifications.
DbIVs == {"iv1"}

\* An account the database file already holds, deactivated by an operator:
\* nothing in the application clears is_active.
Deactivated ==
    [id |-> 1, username |-> <<"z">>, email |-> <<"z">>,
     password_hash |-> Sha256Hex(<<"a">>), first_name |-> None, last_name |-> None,
     is_active |-> FALSE, last_login |-> 0]

\* The keys a caller can name: every key handed out so far, and -1 for a key
\* that was never handed out.
KeyArgs(n) == (1..n) \cup {-1}

\* The browser session before the first run of the script.
UiStart ==
    /\ session_state = LoggedOut
    /\ nav = NoWidget
    /\ screen = Screen("none", {})
    /\ rerun = "load"

ValidateStart ==
    /\ reg_data = [username |-> <<>>, email |-> <<>>, password |-> <<>>,
                   first_name |-> <<>>, last_name |-> <<>>, phone |-> <<>>]
    /\ reg_result = NoCall

HashStart ==
    /\ pw_in = <<>>
    /\ pw_hash = NoCall
    /\ pw_try = <<>>
    /\ pw_ok = NoCall

DbStart ==
    /\ db = [EmptyDb EXCEPT !.users = {Deactivated},
                            !.medical_profiles = {[user_id |-> 1]}]
    /\ next_id = [users |-> 1, chat_sessions |-> 0, chat_messages |-> 0,
                  user_feedback |-> 0]
    /\ now = 0
    /\ frame = [p \in Procs |-> Idle]
    /\ tx = Scope(db, Done(db))
    /\ last = Returned("none", RetNone)
    /\ UiStart
    /\ ValidateStart
    /\ SummaryStart
    /\ KeyStart

\* encrypt_data and decrypt_data, called with any text.
CryptoInit ==
    /\ encryption_key \in Keys
    /\ CryptoStart
    /\ HashStart
    /\ engine = "sqlite"
    /\ DbStart

CryptoNext ==
    \/ \E data \in Strs, iv \in IVs : EncryptData(data, iv)
    \/ \E c \in CipherInputs : DecryptData(c)
    \/ DecryptStored

SpecCrypto == CryptoInit /\ [][CryptoNext]_vars

\* hash_password and verify_password, called with any text.
HashInit ==
    /\ encryption_key = "k1"
    /\ CryptoStart
    /\ HashStart
    /\ engine = "sqlite"
    /\ DbStart

HashNext ==
    \/ \E password \in Strs : HashPassword(password)
    \/ \E password \in Strs : VerifyPassword(password)

SpecHash == HashInit /\ [][HashNext]_vars

\* Accounts: registrations racing on two request threads, and logins.
UsersInit ==
    /\ encryption_key = "k1"
    /\ CryptoStart
    /\ HashStart
    /\ engine \in Engines
    /\ DbStart

UsersNext ==
    \/ \E p \in Procs, username \in Idents, email \in Idents, password \in NewPasswords,
         first_name \in FirstNames :
           CreateUserQuery(p, username, email, password, first_name, None)
    \/ \E p \in Procs, iv \in DbIVs : CreateUserInsert(p, iv)
    \/ \E p \in Procs, username \in Idents \cup {<<"z">>}, password \in Passwords :
           AuthenticateUser(p, username, password)

SpecUsers == UsersInit /\ [][UsersNext]_vars

\* Sessions, messages and feedback of the accounts, on one request thread.
Init ==
    /\ encryption_key = "k1"
    /\ CryptoStart
    /\ HashStart
    /\ engine \in Engines
    /\ DbStart

Next ==
    \/ CreateUserQuery("t1", <<"a">>, <<"a">>, <<"a">>, None, None)
    \/ \E iv \in DbIVs : CreateUserInsert("t1", iv)
    \/ \E user_id \in KeyArgs(next_id.users) : CreateSession("t1", user_id, None)
    \/ \E session_id \in KeyArgs(next_id.chat_sessions),
         user_message \in UserMessages, bot_response \in BotResponses, iv \in DbIVs :
           SaveMessage("t1", session_id, user_message, bot_response, iv)
    \/ \E user_id \in KeyArgs(next_id.users),
         message_id \in KeyArgs(next_id.chat_messages) \cup {0} :
           SubmitFeedback("t1", user_id, message_id)
    \/ \E session_id \in KeyArgs(next_id.chat_sessions),
         user_id \in KeyArgs(next_id.users) :
           DeleteSession("t1", session_id, user_id)

Spec == Init /\ [][Next]_vars

\* What is typed into the registration form: nothing, a name too short, a
\* name and an address and a password the validators accept, a name with a
\* quote, an address without @, a one-letter password.
RegUsernames == {<<>>, <<"a">>, <<"a", "b", "1">>, <<"a", "'", "b">>}

RegEmails == {<<"a">>, <<"a", "@", "b", ".", "a", "z">>}

RegPasswords == {<<"a">>, <<"A", "a", "1", "!", "a", "a", "a", "a">>}

\* The questions typed into the chat: a blank, and a text with an
\* apostrophe.
Queries == {<<" ">>, <<"a", "'", "b">>}

Intents == {"personal_inquiry", "general_question"}

Responses == {<<>>, <<"a">>}

\* One browser session on a new database: registration, login, chat, logout.
UIInit ==
    /\ encryption_key = "k1"
    /\ CryptoStart
    /\ HashStart
    /\ engine \in Engines
    /\ db = EmptyDb
    /\ next_id = [users |-> 0, chat_sessions |-> 0, chat_messages |-> 0,
                  user_feedback |-> 0]
    /\ now = 0
    /\ frame = [p \in Procs |-> Idle]
    /\ tx = Scope(db, Done(db))
    /\ last = Returned("none", RetNone)
    /\ UiStart
    /\ ValidateStart
    /\ SummaryStart
    /\ KeyStart

UINext ==
    \/ \E reg_username \in RegUsernames, reg_email \in RegEmails,
         reg_password \in RegPasswords, data_consent \in BOOLEAN, iv \in DbIVs :
           RegisterSubmit(reg_username, reg_email, reg_password, <<>>,
                          data_consent, TRUE, iv)
    \/ \E username \in RegUsernames \cup RegEmails, password \in RegPasswords :
           LoginSubmit(username, password)
    \/ \E query \in Queries, predicted_intent \in Intents, response \in Responses,
         iv \in DbIVs :
           ChatSend(query, predicted_intent, response, iv)
    \/ Logout
    \/ Run

SpecUI == UIInit /\ [][UINext]_vars

\* validate_user_data(user_data)
ValidateUserData(username, email, password, first_name, last_name, phone) ==
    LET user_data == [username |-> username, email |-> email, password |-> password,
                      first_name |-> first_name, last_name |-> last_name,
                      phone |-> phone]
    IN  /\ reg_data' = user_data
        /\ reg_result' = Return(validate_user_data(user_data))
        /\ UNCHANGED <<cryptoVars, hashVars, dbVars, uiVars, summaryVars, keyVars>>

\* The optional fields of a registration: absent, accepted, rejected.
RegNames == {<<>>, <<"a", "-", "b">>, <<"a", "1">>, <<" ">>}

RegLastNames == {<<>>, <<"a", "'", "b">>, <<"!">>}

RegPhones ==
    {<<>>, <<"1">>, <<"a">>, <<"+", "1", "1", "1", "-", "1", "1", "1", "1">>}

\* validate_user_data, called with any registration.
ValidateInit ==
    /\ encryption_key = "k1"
    /\ CryptoStart
    /\ HashStart
    /\ engine = "sqlite"
    /\ DbStart

ValidateNext ==
    \E username \in RegUsernames, email \in RegEmails, password \in RegPasswords,
       first_name \in RegNames, last_name \in RegLastNames, phone \in RegPhones :
        ValidateUserData(username, email, password, first_name, last_name, phone)

SpecValidate == ValidateInit /\ [][ValidateNext]_vars

\* An account registered with the password "a".
Registered(id, username) ==
    [id |-> id, username |-> username, email |-> username \o <<"@">>,
     password_hash |-> Sha256Hex(<<"a">>), first_name |-> None, last_name |-> None,
     is_active |-> TRUE, last_login |-> 0]

\* A database file with two accounts and nothing else.
TwoUsersStart ==
    /\ db = [EmptyDb EXCEPT
                !.users = {Registered(1, <<"a">>), Registered(2, <<"b">>)},
                !.medical_profiles = {[user_id |-> 1], [user_id |-> 2]}]
    /\ next_id = [users |-> 2, chat_sessions |-> 0, chat_messages |-> 0,
                  user_feedback |-> 0]
    /\ now = 0
    /\ frame = [p \in Procs |-> Idle]
    /\ tx = Scope(db, Done(db))
    /\ last = Returned("none", RetNone)
    /\ UiStart
    /\ ValidateStart
    /\ SummaryStart
    /\ KeyStart

Ratings == {0, 3, 6}

\* The sessions and messages of two accounts, and calls that name them with
\* either account's id.
OwnerInit ==
    /\ encryption_key = "k1"
    /\ CryptoStart
    /\ HashStart
    /\ engine \in Engines
    /\ TwoUsersStart

OwnerNext ==
    \/ \E user_id \in 1..2 : CreateSession("t1", user_id, None)
    \/ \E session_id \in KeyArgs(next_id.chat_sessions) :
           SaveMessage("t1", session_id, <<"a">>, <<"a">>, "iv1")
    \/ \E message_id \in KeyArgs(next_id.chat_messages), user_id \in KeyArgs(2) :
           BookmarkMessage("t1", message_id, user_id)
    \/ \E message_id \in KeyArgs(next_id.chat_messages), user_id \in KeyArgs(2),
         rating \in Ratings :
           RateMessage("t1", message_id, user_id, rating)
    \/ \E session_id \in KeyArgs(next_id.chat_sessions), user_id \in KeyArgs(2) :
           DeleteSession("t1", session_id, user_id)

SpecOwner == OwnerInit /\ [][OwnerNext]_vars

\* The ratings around the accepted range: every integer from one below it
\* to one above it.  0 is also how the model writes a NULL user_rating, which
\* a refused call leaves as it is.
RatingArgs == (RatingMin - 1)..(RatingMax + 1)

\* Messages of two accounts, rated by either with every rating.
RatingInit ==
    /\ encryption_key = "k1"
    /\ CryptoStart
    /\ HashStart
    /\ engine = "sqlite"
    /\ TwoUsersStart

RatingNext ==
    \/ \E user_id \in 1..2 : CreateSession("t1", user_id, None)
    \/ \E session_id \in 1..next_id.chat_sessions :
           SaveMessage("t1", session_id, <<"a">>, <<"a">>, "iv1")
    \/ \E message_id \in KeyArgs(next_id.chat_messages), user_id \in 1..2,
         rating \in RatingArgs :
           RateMessage("t1", message_id, user_id, rating)

SpecRating == RatingInit /\ [][RatingNext]_vars

\* HF_TOKEN of the environment: not set, empty, set.
HfTokens == {None, <<>>, <<"t">>}

\* get_huggingface_summary, called with any text against any server.
SummaryInit ==
    /\ encryption_key = "k1"
    /\ CryptoStart
    /\ HashStart
    /\ engine = "sqlite"
    /\ DbStart

SummaryNext ==
    \E text \in SummaryTexts, hf_token \in HfTokens, first \in Posts, second \in Posts :
        GetHuggingfaceSummary(text, hf_token, first, second)

SpecSummary == SummaryInit /\ [][SummaryNext]_vars

\* The texts the instances encrypt.
KeyData == {<<>>, <<"a">>, <<"U+D800">>}

\* Two EncryptionManager instances created under environments that are set
\* and changed between the constructions.
KeyInit ==
    /\ encryption_key = "k1"
    /\ CryptoStart
    /\ HashStart
    /\ engine = "sqlite"
    /\ DbStart

KeyNext ==
    \/ \E name \in EnvNames : \E value \in EnvValues[name] : Putenv(name, value)
    \/ \E name \in EnvNames : Unsetenv(name)
    \/ \E i \in 1..2 : CreateManager(i)
    \/ \E i \in 1..2, data \in KeyData, iv \in DbIVs : ManagerEncrypt(i, data, iv)
    \/ \E i \in 1..2 : ManagerDecrypt(i)

SpecKey == KeyInit /\ [][KeyNext]_vars

\* What is typed into the chat and what the chain answers, on the pages.
PageQueries == {<<" ">>, <<"a">>}

PageResponses == {<<>>, <<"a">>, <<"b">>, <<"U+D800">>}

\* The limits get_user_sessions is called with.
Limits == {1, HistoryLimit}

\* One browser session of the first account on the chat page: questions,
\* Clear Chat, New Chat, the history page's Open button, logout and login.
ChatInit ==
    /\ encryption_key = "k1"
    /\ CryptoStart
    /\ HashStart
    /\ engine = "sqlite"
    /\ TwoUsersStart

ChatNext ==
    \/ Run
    \/ \E password \in {<<"a">>, <<"b">>} : LoginSubmit(<<"a">>, password)
    \/ Logout
    \/ \E selected \in {1, 3} : NavSelect(selected)
    \/ NewChat
    \/ \E query \in PageQueries, predicted_intent \in Intents,
         response \in PageResponses, iv \in DbIVs :
           ChatSend(query, predicted_intent, response, iv)
    \/ ClearChat
    \/ \E session_id \in KeyArgs(next_id.chat_sessions) : OpenSession(session_id)
    \/ \E limit \in Limits : GetUserSessions("t1", 1, limit)

SpecChat == ChatInit /\ [][ChatNext]_vars

\* One browser session of the two accounts on every page: login, the
\* sidebar, a question, the history page's buttons, logout.
PagesInit ==
    /\ encryption_key = "k1"
    /\ CryptoStart
    /\ HashStart
    /\ engine \in Engines
    /\ TwoUsersStart

PagesNext ==
    \/ Run
    \/ \E username \in {<<"a">>, <<"b">>} : LoginSubmit(username, <<"a">>)
    \/ Logout
    \/ \E selected \in 1..Len(PageOptions) : NavSelect(selected)
    \/ \E iv \in DbIVs : ChatSend(<<"a">>, "general_question", <<"b">>, iv)
    \/ \E session_id \in KeyArgs(next_id.chat_sessions) : OpenSession(session_id)
    \/ \E session_id \in KeyArgs(next_id.chat_sessions) : DeleteClick(session_id)
    \/ \E session_id \in KeyArgs(next_id.chat_sessions) : ConfirmDelete(session_id)

SpecPages == PagesInit /\ [][PagesNext]_vars

----------------------------------------------------------------------------
(* Claims about encrypt_data and decrypt_data, under SpecCrypto            *)

Encodable(s) == ~StrEncode(s).raised

FailingInputs ==
    {<<>>}
    \cup Strs
    \cup {B64Encode(Tamper(t)) : t \in Tokens}
    \cup {B64Encode(FernetEncrypt(k, iv, p)) :
            k \in Keys \ {encryption_key}, iv \in IVs, p \in Payloads}

\* C2: decrypt_data never raises to its caller, and for an input that is
\* empty, not base64, tampered, or encrypted under a different key it
\* returns the empty string.
C2_DecryptFailureIsEmpty ==
    dec_out # NoCall =>
        /\ ~dec_out.raised
        /\ dec_in \in FailingInputs => dec_out = Return(<<>>)

\* decrypt_data returned "" for a token made under the other key.
C2_Witness ==
    /\ dec_out = Return(<<>>)
    /\ Len(dec_in) > 3
    /\ dec_in[1] = "b64"
    /\ dec_in[2] = "0x80"
    /\ dec_in[Len(dec_in)] \in Keys \ {encryption_key}

\* C3 as stated: encrypt_data never raises to its caller, and returns an
\* empty value when the encryption inside it fails.
C3_EncryptFailureIsEmpty ==
    enc_out # NoCall =>
        /\ ~enc_out.raised
        /\ ~Encodable(enc_in) => enc_out = Return(<<>>)

----------------------------------------------------------------------------
(* Claims about hash_password and verify_password, under SpecHash          *)

----------------------------------------------------------------------------
(* Claims about the transaction scope and the session tables, under Spec   *)

OtherSessions(d, session_id) == {s \in d.chat_sessions : s.id # session_id}

MessagesOf(d, session_id) == {m \in d.chat_messages : m.session_id = session_id}

MessagesOfOthers(d, session_id) == {m \in d.chat_messages : m.session_id # session_id}

\* C5: after delete_session(session_id, user_id) returns True, the session
\* and every message whose session_id is that session no longer exist, and
\* every other session and every message of another session is unchanged.
C5_CascadeDelete ==
    [][\A session_id \in KeyArgs(MaxSessions), user_id \in KeyArgs(MaxUsers) :
          (DeleteSession("t1", session_id, user_id) /\ last'.ret = RetBool(TRUE)) =>
              /\ session_id \notin SessionIds(db')
              /\ MessagesOf(db', session_id) = {}
              /\ OtherSessions(db', session_id) = OtherSessions(db, session_id)
              /\ MessagesOfOthers(db', session_id) = MessagesOfOthers(db, session_id)]_vars

\* delete_session returned True for a session that had a message, while
\* another session has one.
C5_Witness ==
    /\ last = Returned("delete_session", RetBool(TRUE))
    /\ \E m \in tx.before.chat_messages :
          /\ m \notin db.chat_messages
          /\ m.session_id \in SessionIds(tx.before) \ SessionIds(db)
    /\ \E m \in db.chat_messages : m.session_id \in SessionIds(db)

\* C6: in every reachable state every chat_messages.session_id names an
\* existing chat session, every chat_sessions.user_id and
\* user_feedback.user_id an existing user, and every non-null
\* user_feedback.message_id an existing chat message.
C6_ReferentialIntegrity ==
    /\ \A m \in db.chat_messages : m.session_id \in SessionIds(db)
    /\ \A s \in db.chat_sessions : s.user_id \in UserIds(db)
    /\ \A f \in db.user_feedback :
          /\ f.user_id \in UserIds(db)
          /\ f.message_id # 0 => f.message_id \in MessageIds(db)

----------------------------------------------------------------------------
(* Claims about the accounts, under SpecUsers                              *)

\* The rows authenticate_user may return for (username, password).
Authenticates(d, username, password) ==
    {u \in d.users :
        /\ u.is_active
        /\ u.username = username \/ u.email = username
        /\ hash_password(password) = Return(u.password_hash)}

UniqueUsers(users) ==
    \A u1, u2 \in users :
        u1 # u2 => u1.username # u2.username /\ u1.email # u2.email

Taken(d, username, email) ==
    \E u \in d.users : u.username = username \/ u.email = email

\* C9: no two user rows ever share a username or an email, and a
\* create_user call that finds its username or email taken, at its query or
\* at its INSERT, returns None and leaves the tables unchanged.
C9_UniqueUsernames ==
    /\ [](UniqueUsers(db.users))
    /\ [][\A p \in Procs, username \in Idents, email \in Idents,
             password \in NewPasswords, first_name \in FirstNames :
             (/\ CreateUserQuery(p, username, email, password, first_name, None)
              /\ Taken(db, username, email)) =>
                 last' = Returned("create_user", RetNone) /\ db' = db]_vars
    /\ [][\A p \in Procs, iv \in DbIVs :
             (/\ CreateUserInsert(p, iv)
              /\ Taken(db, frame[p].args.username, frame[p].args.email)) =>
                 last' = Returned("create_user", RetNone) /\ db' = db]_vars

\* Two registrations passed the query with the same name; the second INSERT
\* raised IntegrityError and its create_user returned None.
C9_Witness ==
    /\ tx.raised
    /\ tx.exc = "IntegrityError"
    /\ last = Returned("create_user", RetNone)
    /\ Cardinality(db.users) > 1

----------------------------------------------------------------------------
(* Claims about the handlers, under SpecUI                                 *)

\* C10 as stated: an input the validation helpers reject is never written:
\* every stored user name, address and password is one the registration
\* checks accept, and every stored question is one validate_chat_message
\* accepts.
C10_ValidatedWrites ==
    /\ \A u \in db.users :
          /\ validate_username(u.username).is_valid
          /\ validate_sql_injection(u.username).is_valid
          /\ validate_email(u.email).is_valid
          /\ \A password \in RegPasswords :
                hash_password(password) = Return(u.password_hash) =>
                    validate_password(password).is_valid
    /\ \A m \in db.chat_messages :
          validate_chat_message(Decrypt(encryption_key, m.user_message).val).is_valid

----------------------------------------------------------------------------
(* Claims about the chat page, under SpecChat                              *)

\* `part` occurs in `text`.
Contains(text, part) ==
    \E i \in 1..Len(text) :
        i + Len(part) - 1 <= Len(text) /\ SubSeq(text, i, i + Len(part) - 1) = part

\* The column holds a token that decrypts under the key.
IsCiphertext(column) ==
    /\ column # None
    /\ column # <<>>
    /\ Decrypt(encryption_key, column) # Return(<<>>)

\* C11 as stated: in every reachable database state a name, a chat question
\* and a bot response are stored only as ciphertext, and no column of any
\* table holds any part of a question in plaintext.
C11_EncryptedAtRest ==
    /\ \A u \in db.users :
          \A column \in {u.first_name, u.last_name} :
              column = None \/ IsCiphertext(column)
    /\ \A m \in db.chat_messages :
          IsCiphertext(m.user_message) /\ IsCiphertext(m.bot_response)
    /\ \A s \in db.chat_sessions :
          \A query \in PageQueries :
              ~IsBlank(query) => ~Contains(s.session_name, query)

\* The displayed list ends with this question and this answer.
EndsWithPair(messages, query, answer) ==
    /\ Len(messages) >= 2
    /\ messages[Len(messages) - 1] = [role |-> "user", content |-> query]
    /\ messages[Len(messages)] = [role |-> "assistant", content |-> answer]

\* A message row of the session that decrypts to the question and the answer.
StoredPair(d, session_id, query, answer) ==
    \E m \in d.chat_messages :
        /\ m.session_id = session_id
        /\ DecryptColumn(encryption_key, m.user_message) = query
        /\ DecryptColumn(encryption_key, m.bot_response) = answer

\* C13 as stated: whenever a Send appends a user question and an assistant
\* answer to the displayed message list, a chat message with that question
\* and answer is stored by that step under the selected session.
C13_RenderedAndPersisted ==
    [][\A query \in PageQueries, predicted_intent \in Intents,
         response \in PageResponses, iv \in DbIVs :
           (/\ ChatSend(query, predicted_intent, response, iv)
            /\ \E answer \in PageResponses \cup {ClarifyingMessage} :
                  EndsWithPair(session_state'.messages, query, answer)
            /\ Len(session_state'.messages) > Len(session_state.messages))
           => \E answer \in PageResponses \cup {ClarifyingMessage} :
                 /\ EndsWithPair(session_state'.messages, query, answer)
                 /\ session_state'.selected_session_id # 0
                 /\ db'.chat_messages # db.chat_messages
                 /\ StoredPair(db', session_state'.selected_session_id, query, answer)]_vars

\* C14 as stated: whenever a Send reaches save_message and the message is
\* not stored, the chat page shows an error on that action.
C14_SaveFailureShown ==
    [][\A query \in PageQueries, response \in PageResponses, iv \in DbIVs :
           (/\ ChatSend(query, "general_question", response, iv)
            /\ last' = Returned("save_message", RetNone)
            /\ db'.chat_messages = db.chat_messages)
           => screen'.errors # {}]_vars

\* C19 as stated: after Clear Chat the displayed message list is empty on
\* the run that follows, whether or not a session is selected.
C19_ClearChatEmpties ==
    [][(rerun = "clear_chat" /\ Run) => session_state'.messages = <<>>]_vars

\* The sessions of the user in the database.
SessionsOf(d, user_id) == {s \in d.chat_sessions : s.user_id = user_id}

\* The smaller of two numbers.
Min(a, b) == IF a < b THEN a ELSE b

\* The list holds `limit` sessions of the user, or all of them when there are
\* fewer, each once, latest update first, and no session left out was
\* updated after a listed one.
MostRecentlyUpdated(list, d, user_id, limit) ==
    LET listed == {list[i].id : i \in 1..Len(list)}
    IN  /\ Len(list) = Min(limit, Cardinality(SessionsOf(d, user_id)))
        /\ Cardinality(listed) = Len(list)
        /\ \A i \in 1..Len(list) : list[i] \in SessionsOf(d, user_id)
        /\ \A i, j \in 1..Len(list) : i < j => list[i].updated_at >= list[j].updated_at
        /\ \A s \in SessionsOf(d, user_id) :
              s.id \notin listed =>
                  \A i \in 1..Len(list) : s.updated_at <= list[i].updated_at

\* The displayed list is the stored messages of the session in timestamp
\* order, each as the question followed by the answer.
ShowsStored(messages, d, session_id) ==
    LET stored == {m \in d.chat_messages : m.session_id = session_id}
    IN  /\ Len(messages) = 2 * Cardinality(stored)
        /\ \A m \in stored :
              LET k == Cardinality({r \in stored : r.timestamp < m.timestamp})
              IN  /\ messages[2 * k + 1] =
                        [role |-> "user",
                         content |-> Decrypt(encryption_key, m.user_message).val]
                  /\ messages[2 * k + 2] =
                        [role |-> "assistant",
                         content |-> Decrypt(encryption_key, m.bot_response).val]

C16_WitnessLimit ==
    /\ Cardinality(SessionsOf(db, 1)) = 2
    /\ last.op = "get_user_sessions"
    /\ Len(last.ret.list) = 1

----------------------------------------------------------------------------
(* Claims about registration validation, under SpecValidate                *)

\* Whether an optional field is given (`if first_name:`).
Given(value) == value # <<>>

\* 1 when the check failed, 0 when it passed.
Failed(result) == IF result.is_valid THEN 0 ELSE 1

\* The number of checks of a registration that fail, each validator asked
\* on its own.
FailedChecks(d) ==
    Failed(validate_username(d.username))
    + Failed(validate_sql_injection(d.username))
    + Failed(validate_email(d.email))
    + Failed(validate_password(d.password))
    + (IF Given(d.first_name) THEN Failed(validate_name(d.first_name, "First name")) ELSE 0)
    + (IF Given(d.last_name) THEN Failed(validate_name(d.last_name, "Last name")) ELSE 0)
    + (IF Given(d.phone) THEN Failed(validate_phone_number(d.phone)) ELSE 0)

\* C12: validate_user_registration returns is_valid = True exactly when the
\* username passes validate_username and the SQL-injection check, the email
\* and the password pass their validators and every optional field that is
\* given passes its validator; otherwise it returns False with one error
\* entry for every check that failed.
C12_RegistrationValidation ==
    reg_result # NoCall =>
        /\ ~reg_result.raised
        /\ reg_result.val.is_valid = (FailedChecks(reg_data) = 0)
        /\ Len(reg_result.val.errors) = FailedChecks(reg_data)

\* A registration with several failed checks, two of them on the username,
\* and one with every field given and accepted.
C12_Witness ==
    /\ reg_result # NoCall
    /\ reg_data.username = <<"a", "'", "b">>
    /\ reg_data.phone = <<"a">>
    /\ Len(reg_result.val.errors) >= 4

C12_WitnessAccepted ==
    /\ reg_result # NoCall
    /\ reg_result.val.is_valid
    /\ Given(reg_data.first_name) /\ Given(reg_data.last_name) /\ Given(reg_data.phone)

----------------------------------------------------------------------------
(* Claims about ownership, under SpecOwner                                 *)

\* The session with this id belongs to the user.
SessionOwnedBy(d, session_id, user_id) ==
    \E s \in d.chat_sessions : s.id = session_id /\ s.user_id = user_id

\* Every session and message row the step changed or removed belongs to a
\* session of the user, and no other table changed.
ChangesOnlyOwned(user_id) ==
    /\ \A s \in db.chat_sessions \ db'.chat_sessions : s.user_id = user_id
    /\ \A m \in db.chat_messages \ db'.chat_messages :
          SessionOwnedBy(db, m.session_id, user_id)
    /\ db'.users = db.users
    /\ db'.medical_profiles = db.medical_profiles
    /\ db'.user_feedback = db.user_feedback

\* The call returned False and left the database as it was.
Refused(op) ==
    /\ last' = Returned(op, RetBool(FALSE))
    /\ db' = db

\* The message with this id belongs to a session of the user.
MessageOwnedBy(d, message_id, user_id) ==
    \E m \in d.chat_messages :
        m.id = message_id /\ SessionOwnedBy(d, m.session_id, user_id)

\* C15: delete_session, bookmark_message and rate_message change a session
\* or a message only when it belongs to a chat session whose user_id is the
\* user_id argument; called with any other user_id they return False and
\* leave the database unchanged.
C15_OwnerOnlyMutation ==
    [][\A user_id \in KeyArgs(2) :
          /\ \A session_id \in KeyArgs(MaxSessions) :
                DeleteSession("t1", session_id, user_id) =>
                    /\ ChangesOnlyOwned(user_id)
                    /\ ~SessionOwnedBy(db, session_id, user_id)
                           => Refused("delete_session")
          /\ \A message_id \in KeyArgs(MaxMessages) :
                /\ BookmarkMessage("t1", message_id, user_id) =>
                       /\ ChangesOnlyOwned(user_id)
                       /\ ~MessageOwnedBy(db, message_id, user_id)
                              => Refused("bookmark_message")
                /\ \A rating \in Ratings :
                       RateMessage("t1", message_id, user_id, rating) =>
                           /\ ChangesOnlyOwned(user_id)
                           /\ ~MessageOwnedBy(db, message_id, user_id)
                                  => Refused("rate_message")]_vars

\* Both accounts have a session with a message; the first account's message
\* was bookmarked and rated by its owner while the other's is untouched, and
\* the last call, a delete_session, was refused.
C15_Witness ==
    /\ \E m \in db.chat_messages :
          /\ SessionOwnedBy(db, m.session_id, 1)
          /\ m.is_bookmarked
          /\ m.user_rating = 3
    /\ \E m \in db.chat_messages :
          /\ SessionOwnedBy(db, m.session_id, 2)
          /\ ~m.is_bookmarked
          /\ m.user_rating = 0
    /\ last = Returned("delete_session", RetBool(FALSE))

----------------------------------------------------------------------------
(* Claims about the pages and the sidebar, under SpecPages                 *)

\* The session's Delete button was clicked and no deletion followed yet.
DeleteRequested(ss, session_id) ==
    [session_id |-> session_id, value |-> TRUE] \in ss.confirm_delete

\* C17 as stated: delete_session is called for a session from the history
\* page only when the session's confirm_delete flag is set, that is after
\* its Delete button was clicked, and Confirm Delete is clicked afterwards.
C17_TwoStepDelete ==
    [][\A session_id \in KeyArgs(MaxSessions) :
          (ConfirmDelete(session_id) /\ last'.op = "delete_session")
              => DeleteRequested(session_state, session_id)]_vars

\* The page each option of the selector stands for, as the dispatch
\* renders it.
CorrespondingPage == <<"chat", "profile", "history", "settings", "summarize">>

\* C18 as stated: selecting an option of the sidebar selector leaves
\* st.session_state.page at the option's page key, one of chat, profile,
\* history, settings and 'Summarize Report', and that run renders the
\* option's page.
C18_Navigation ==
    [][\A selected \in 1..Len(PageOptions) :
          NavSelect(selected) =>
              /\ session_state'.page = PageKeys[selected]
              /\ screen'.page = CorrespondingPage[selected]]_vars

\* No key is left in st.session_state.
NoKeyRemains(ss) ==
    /\ ss.keys = {}
    /\ ss.confirm_delete = {}
    /\ ~ss.logged_in
    /\ ss.user_id = 0
    /\ ss.username = <<>>
    /\ ss.selected_session_id = 0
    /\ ss.messages = <<>>

\* C20: after the Logout button no key remains in st.session_state, the run
\* that follows renders only the login page, and the run that follows a
\* login starts with no selected session and no displayed messages.
C20_LogoutClears ==
    [][/\ Logout => NoKeyRemains(session_state')
       /\ (rerun = "logout" /\ Run) =>
             /\ screen' = Screen("login", {})
             /\ session_state'.keys = {"logged_in", "page"}
             /\ ~session_state'.logged_in
       /\ (rerun = "login" /\ Run) =>
             /\ session_state'.logged_in
             /\ session_state'.selected_session_id = 0
             /\ session_state'.messages = <<>>
             /\ session_state'.confirm_delete = {}]_vars

\* The first account asked a question in this browser session, which stored
\* a chat session with a message; now the second account is logged in and
\* its chat page has no selected session and shows no message.
C20_Witness ==
    /\ \E s \in db.chat_sessions :
          /\ s.user_id = 1
          /\ \E m \in db.chat_messages : m.session_id = s.id
    /\ session_state.logged_in
    /\ session_state.user_id = 2
    /\ screen.page = "chat"
    /\ rerun = ""
    /\ session_state.selected_session_id = 0
    /\ session_state.messages = <<>>

----------------------------------------------------------------------------
(* Claims about ratings, under SpecRating                                  *)

\* A user_rating column holds NULL (0 in the model) or an integer of the
\* accepted range; the rating of a call is in the accepted range.
InRange(rating) == rating \in 1..5

RatingsStored(d) ==
    \A m \in d.chat_messages : m.user_rating = 0 \/ InRange(m.user_rating)

\* C21: rate_message stores the rating only when 1 <= rating <= 5 and the
\* message belongs to the user, so every chat_messages.user_rating is null
\* or an integer from 1 to 5 in every reachable state; a call with any
\* other rating returns False and changes nothing.
C21_RatingsInRange ==
    [][/\ RatingsStored(db) /\ RatingsStored(db')
       /\ \A message_id \in KeyArgs(MaxMessages), user_id \in 1..2,
            rating \in RatingArgs :
              RateMessage("t1", message_id, user_id, rating) =>
                  /\ db' # db => /\ InRange(rating)
                                 /\ MessageOwnedBy(db, message_id, user_id)
                                 /\ \E m \in db'.chat_messages :
                                       m.id = message_id /\ m.user_rating = rating
                  /\ ~InRange(rating) => Refused("rate_message")
                  /\ (InRange(rating) /\ MessageOwnedBy(db, message_id, user_id))
                        => /\ last' = Returned("rate_message", RetBool(TRUE))
                           /\ \E m \in db'.chat_messages :
                                 m.id = message_id /\ m.user_rating = rating]_vars

\* One message holds the lowest rating and another the highest, and the last
\* call, a rate_message, was refused.
C21_Witness ==
    /\ \E m \in db.chat_messages : m.user_rating = 1
    /\ \E m \in db.chat_messages : m.user_rating = 5
    /\ last = Returned("rate_message", RetBool(FALSE))

\* ---------------------------------------------------------------------
\* Claims about the summarizer, under SpecSummary
\* ---------------------------------------------------------------------

\* The call sent at most two POSTs, and a second one only after a first
\* that answered 503 with "is currently loading" in its body.
RetriedAtMostOnce(call) ==
    /\ Len(call.posts) <= 2
    /\ Len(call.posts) = 2 =>
          StatusCode(call.posts[1]) = "503" /\ IsLoading(call.posts[1])

\* The call ended by returning a string.
AnsweredString(call) == ~call.result.raised /\ call.result.val.type = "str"

\* C22: get_huggingface_summary sends at most two POST requests per call,
\* the second only when the first returned status 503 with "is currently
\* loading" in the body, and in every case it terminates by returning a
\* string instead of raising.
C22_SummarizerAnswers ==
    hf_call # NoCall => RetriedAtMostOnce(hf_call) /\ AnsweredString(hf_call)

\* What holds of every call: at most one retry, after a loading 503 only,
\* and a return, of a string unless the last answer was a 200 whose
\* summary_text is no string.
SummarizerRetriesOnce ==
    hf_call # NoCall =>
        /\ RetriedAtMostOnce(hf_call)
        /\ ~hf_call.result.raised
        /\ \/ AnsweredString(hf_call)
           \/ /\ hf_call.result.val = PyNone
              /\ \/ hf_cache[hf_call.text] = PyNone /\ hf_call.posts = <<>>
                 \/ /\ hf_call.posts # <<>>
                    /\ hf_call.posts[Len(hf_call.posts)] = "200 null summary"

\* A call was answered 200 with a null summary_text and returned None.
C22_NoneReturned ==
    /\ hf_call # NoCall
    /\ hf_call.posts = <<"200 null summary">>
    /\ hf_call.result = Return(PyNone)

\* ---------------------------------------------------------------------
\* Claims about the encryption key, under SpecKey
\* ---------------------------------------------------------------------

\* An instance was asked for.
Asked(manager) == manager.init # NoCall

\* ENCRYPTION_KEY is set and non-empty.
KeySet(env) == env["ENCRYPTION_KEY"] \notin {Unset, ""}

\* The instances asked for under one environment ended alike: with the same
\* key or the same exception.
SameEnvironmentSameKey ==
    \A i, j \in DOMAIN managers :
        (Asked(managers[i]) /\ Asked(managers[j])
           /\ managers[i].environ = managers[j].environ)
        => managers[i].init = managers[j].init

\* What one instance encrypted, an instance of the same environment
\* decrypts to the text that was encrypted.
DecryptedByTheOther ==
    (/\ used.enc # 0 /\ used.dec # 0
     /\ managers[used.enc].environ = managers[used.dec].environ
     /\ ~enc_out.raised /\ enc_out # NoCall
     /\ dec_in = enc_out.val)
    => dec_out = Return(enc_in)

C23_WitnessKeySet ==
    /\ Constructed(managers[1]) /\ Constructed(managers[2])
    /\ managers[1].environ = managers[2].environ
    /\ managers[1].init.val = "k1"
    /\ used = [enc |-> 1, dec |-> 2]
    /\ enc_in = <<"a">>
    /\ dec_in = enc_out.val
    /\ dec_out = Return(<<"a">>)

====
